---------------------------- MODULE Spec2Model ----------------------------
(***************************************************************************)
(* A model of the progressive streaming audio pipeline of sctui:           *)
(* internal/audio/buffered_player.go (BufferedStreamPlayer, StreamBuffer,  *)
(* PositionTracker) and internal/audio/buffer_reader.go (BufferReader).    *)
(*                                                                         *)
(* Tasks: one caller of the transport operations ("user"), one concurrent  *)
(* snapshot caller ("observer"), one downloadStream goroutine per session, *)
(* one trackPositionWithBuffer goroutine per session, the goroutines of    *)
(* attemptBufferRecovery, and the speaker's mixer, which pulls samples     *)
(* from every attached pipeline while holding the speaker lock.            *)
(*                                                                         *)
(* A session is one Play call that got past the validation of its URL; a   *)
(* session's buffer, reader, pipeline (beep.Ctrl), done channel and        *)
(* goroutines carry the session's number.  The player's fields p.buffer,   *)
(* p.ctrl, p.streamer and p.streamURL are pointers that the goroutines     *)
(* read again at every use, as the code does.                              *)
(*                                                                         *)
(* Sizes are counted in units of 256 KiB.  A step of a task is the code    *)
(* between two points where another task can observe or change what the    *)
(* task uses: a critical section that cannot block is one step.            *)
(***************************************************************************)
EXTENDS Integers, Sequences, FiniteSets

(***************************************************************************)
(* Bounds of the model.                                                    *)
(***************************************************************************)
MaxSessions == 2     \* Play calls that create a session
MaxFaults == 1       \* network faults the environment injects
MaxRead == 2         \* units one read of the response body returns at most
PreloadPolls == 2    \* ticker periods in the preload wait before its deadline
MaxRecov == 1        \* attemptBufferRecovery goroutines alive at a time
MaxPull == 2         \* units the decoder asks of one Read at most
MaxNow == 4          \* the last tick of the clock

(***************************************************************************)
(* Program constants (sizes in units of 256 KiB).                          *)
(***************************************************************************)
bufferSize == 16           \* 4 MiB
preloadSize == 4           \* 1 MiB
maxRetries == 5
backoffDuration == 1       \* seconds
maxConsecutiveErrors == 3
maxWait == 2               \* polls of BufferReader.Read (scaled down from 50)

Sess == 1..MaxSessions
NoSess == 0

(***************************************************************************)
(* The resources the server holds.  URL 0 is the empty string.             *)
(*   1: audio, longer than the preload size                                *)
(*   2: a resource of zero bytes                                           *)
(*   3: audio, shorter than the preload size                               *)
(*   4: audio, longer than the buffer                                      *)
(***************************************************************************)
NoURL == 0
NoTrack == -1              \* p.currentTrack == nil
URLs == 1..4
ResLen(u) == CASE u = 1 -> 6 [] u = 2 -> 0 [] u = 3 -> 2 [] u = 4 -> 18 [] OTHER -> 0
\* byte (unit) number off of resource u
Byte(u, off) == <<u, off>>
\* the bytes off .. off+n-1 of resource u
Chunk(u, off, n) == [i \in 1..n |-> Byte(u, off + i - 1)]

VARIABLES
  \* ---- BufferedStreamPlayer
  mu,            \* p.mu: "free" or the task that holds it across steps
  state,         \* p.state
  ctrl,          \* p.ctrl: NoSess (nil) or the session whose beep.Ctrl it is
  streamer,      \* p.streamer
  buffer,        \* p.buffer
  streamURL,     \* p.streamURL
  isRecovering,  \* p.isRecovering
  lastError,     \* p.lastError # nil
  speakerInit,   \* the sync.Once and p.speakerInitErr: "no", "ok", "err"
  nSess,         \* sessions created so far
  \* ---- the speaker (process-wide) and the pipelines
  spk,           \* the speaker lock: "free" or "mixer"
  attached,      \* attached[s]: pipeline s is in the mixer
  paused,        \* paused[s]: Ctrl.Paused of pipeline s
  out,           \* out[s]: what the last pull of pipeline s delivered
  \* ---- StreamBuffer of each session
  data, writePos, preloaded, completed, ctxDone, downloadDone,
  \* ---- BufferReader of each session, and the bytes its Reads have returned
  \* since it was made, reset or sought
  position, delivered,
  \* ---- downloadStream goroutine of each session (delay: of the wait before
  \* the attempt, in seconds)
  dlPc, attempt, delay, consecutiveErrors, reqCtx, reqURL, respOff, respErr, chunk,
  faults,        \* network faults the environment may still inject
  \* ---- PositionTracker (times in ticks; 0 is the zero time.Time) and the clock
  startTime, pausedTime, totalPaused, lastPosition, now,
  \* ---- trackPositionWithBuffer goroutine of each session
  tickPc,
  \* ---- the caller of the transport operations
  uPc, uOp, uArg, uRet, uPolls,
  \* ---- the concurrent caller of the snapshot reads
  oPc,
  \* ---- the mixer: where its pull stands, the pipeline pulled, the polls of Read
  mixPc, mixS, rdPolls,
  \* ---- attemptBufferRecovery goroutines
  recPc, wasPlaying,
  panicked,      \* a goroutine dereferenced a nil pointer: the process is gone
  \* ---- the volume (in halves of the full volume 1.0)
  volume,        \* p.volume
  initCalls,     \* the calls of speaker.Init so far
  \* ---- the callbacks of the player
  onStateChange, \* p.onStateChange is set
  onError,       \* p.onError is set
  cbPending,     \* the callback goroutines started and not yet running: the value each got
  cbRunning,     \* the value of the callback goroutine now running, "none" without one
  \* ---- the PlayerComponent of the terminal interface
  uiState,       \* p.state of the component
  currentTrack,  \* p.currentTrack: NoTrack (nil) or the duration of the track in ticks
  prematureStopDetected,
  uiPosition,    \* p.position of the component, in ticks
  savedPosition, \* the position the restart command was made with
  uiCmd,         \* the command of the component in flight
  uiTick,        \* a tickProgress timer is armed
  signalCount,   \* signalCount[s]: the premature stops signalled for pipeline s
  volCtrl        \* volCtrl[s]: <<Volume, Silent>> of the effects.Volume of pipeline s,
                 \* <<>> before it is made

bufVars == <<data, writePos, preloaded, completed, ctxDone, downloadDone>>
dlVars == <<dlPc, attempt, delay, consecutiveErrors, reqCtx, reqURL, respOff, respErr, chunk, faults>>
ptVars == <<startTime, pausedTime, totalPaused, lastPosition, now>>
playerVars == <<mu, state, ctrl, streamer, buffer, streamURL, isRecovering, lastError,
                speakerInit, nSess>>
pipeVars == <<spk, attached, paused, out>>
userVars == <<uPc, uOp, uArg, uRet, uPolls>>
restVars == <<oPc, mixPc, mixS, rdPolls, recPc, wasPlaying>>
volVars == <<volume, volCtrl>>
cbVars == <<onStateChange, onError, cbPending, cbRunning>>
uiVars == <<uiState, currentTrack, prematureStopDetected, uiPosition, savedPosition, uiCmd, uiTick, signalCount>>
vars == <<playerVars, pipeVars, bufVars, position, delivered, dlVars, ptVars, tickPc, userVars, panicked,
          restVars, volVars, initCalls, cbVars, uiVars>>

(***************************************************************************)
(* StreamBuffer                                                            *)
(***************************************************************************)
Min(a, b) == IF a < b THEN a ELSE b

\* StreamBuffer.write: the data stored and the new write position
writeData(b, c) ==
  LET availableSpace == bufferSize - writePos[b]
      toWrite == IF Len(c) > availableSpace THEN SubSeq(c, 1, availableSpace) ELSE c
  IN  IF availableSpace <= 0 THEN data[b] ELSE data[b] \o toWrite

write(b, c) ==
  LET nd == writeData(b, c)
  IN  /\ data' = [data EXCEPT ![b] = nd]
      /\ writePos' = [writePos EXCEPT ![b] = Len(nd)]
      /\ preloaded' = [preloaded EXCEPT ![b] = preloaded[b] \/ Len(nd) >= preloadSize]

isPreloaded(b) == preloaded[b]

(***************************************************************************)
(* downloadStream and downloadStreamAttempt.  The goroutine of session d   *)
(* reads p.buffer and p.streamURL at every use.                            *)
(***************************************************************************)
\* a retry loop that goes round once more before it gives up
AttemptFailedOneMore(d) ==
  IF attempt[d] = maxRetries
  THEN /\ dlPc' = [dlPc EXCEPT ![d] = "giveUp"]
       /\ UNCHANGED <<attempt, delay>>
  ELSE /\ dlPc' = [dlPc EXCEPT ![d] = "backoff"]
       /\ attempt' = [attempt EXCEPT ![d] = attempt[d] + 1]
       /\ delay' = [delay EXCEPT ![d] = (attempt[d] + 1) * backoffDuration]

\* the attempt in flight returned false: after the last one the error is to be
\* recorded, after another the loop goes to the wait of the next attempt
AttemptFailed(d) ==
  IF attempt[d] = maxRetries - 1
  THEN /\ dlPc' = [dlPc EXCEPT ![d] = "giveUp"]
       /\ UNCHANGED <<attempt, delay>>
  ELSE /\ dlPc' = [dlPc EXCEPT ![d] = "backoff"]
       /\ attempt' = [attempt EXCEPT ![d] = attempt[d] + 1]
       /\ delay' = [delay EXCEPT ![d] = (attempt[d] + 1) * backoffDuration]

\* the select at the top of a retry: the buffer's context is done
DlBackoffCancelled(d) ==
  /\ ~panicked /\ dlPc[d] = "backoff"
  /\ ctxDone[buffer]
  /\ dlPc' = [dlPc EXCEPT ![d] = "sendDone"]
  /\ UNCHANGED <<attempt, delay, consecutiveErrors, reqCtx, reqURL, respOff, respErr, chunk, faults>>
  /\ UNCHANGED <<playerVars, pipeVars, bufVars, position, delivered, ptVars, tickPc, userVars, panicked, restVars>>
  /\ UNCHANGED <<volVars, initCalls, cbVars, uiVars>>

\* the request is built from p.buffer.ctx, p.streamURL and p.buffer.writePos and sent;
\* the server answers 200 with the whole resource, or 206 with the range asked for
DlRequest(d) ==
  /\ ~panicked
  /\ \/ dlPc[d] = "start"
     \/ dlPc[d] = "backoff" /\ ~ctxDone[buffer]
  /\ LET resumeFrom == writePos[buffer]
         u == streamURL
     IN  /\ reqCtx' = [reqCtx EXCEPT ![d] = buffer]
         /\ reqURL' = [reqURL EXCEPT ![d] = u]
         /\ consecutiveErrors' = [consecutiveErrors EXCEPT ![d] = 0]
         /\ \/ \* httpClient.Do fails: the context is done or the URL is no URL
               /\ ctxDone[buffer] \/ u = NoURL
               /\ AttemptFailed(d)
               /\ UNCHANGED <<respOff, faults>>
            \/ \* httpClient.Do fails, or the status is neither 200 nor 206
               /\ ~ctxDone[buffer] /\ u # NoURL /\ faults > 0
               /\ faults' = faults - 1
               /\ AttemptFailed(d)
               /\ UNCHANGED respOff
            \/ \* 200: the body is the whole resource
               /\ ~ctxDone[buffer] /\ u # NoURL
               /\ respOff' = [respOff EXCEPT ![d] = 0]
               /\ dlPc' = [dlPc EXCEPT ![d] = "body"]
               /\ UNCHANGED <<attempt, delay, faults>>
            \/ \* 206: the body starts at the offset of the Range header
               /\ ~ctxDone[buffer] /\ u # NoURL
               /\ resumeFrom > 0 /\ resumeFrom < ResLen(u)
               /\ respOff' = [respOff EXCEPT ![d] = resumeFrom]
               /\ dlPc' = [dlPc EXCEPT ![d] = "body"]
               /\ UNCHANGED <<attempt, delay, faults>>
            \/ \* 416: the range starts at or after the end of the resource
               /\ ~ctxDone[buffer] /\ u # NoURL
               /\ resumeFrom > 0 /\ resumeFrom >= ResLen(u)
               /\ AttemptFailed(d)
               /\ UNCHANGED <<respOff, faults>>
  /\ respErr' = [respErr EXCEPT ![d] = FALSE]
  /\ UNCHANGED chunk
  /\ UNCHANGED <<playerVars, pipeVars, bufVars, position, delivered, ptVars, tickPc, userVars, panicked, restVars>>
  /\ UNCHANGED <<volVars, initCalls, cbVars, uiVars>>

\* one error of resp.Body.Read: the attempt ends at maxConsecutiveErrors
ReadError(d) ==
  /\ consecutiveErrors' = [consecutiveErrors EXCEPT ![d] = consecutiveErrors[d] + 1]
  /\ IF consecutiveErrors[d] + 1 >= maxConsecutiveErrors
     THEN AttemptFailed(d)
     ELSE UNCHANGED <<dlPc, attempt, delay>>

\* one turn of the read loop up to the write: the check of p.buffer.ctx, then
\* resp.Body.Read, which yields data, io.EOF or an error
\* (short: a read may return less than the rest of the body)
DlRead(d, short) ==
  /\ ~panicked /\ dlPc[d] = "body"
  /\ LET remaining == ResLen(reqURL[d]) - respOff[d] IN
     \/ \* case <-p.buffer.ctx.Done()
        /\ ctxDone[buffer]
        /\ AttemptFailed(d)
        /\ UNCHANGED <<consecutiveErrors, respOff, respErr, chunk, faults, completed>>
     \/ \* the request's context is done, or the connection is broken
        /\ ~ctxDone[buffer]
        /\ ctxDone[reqCtx[d]] \/ respErr[d]
        /\ ReadError(d)
        /\ UNCHANGED <<respOff, respErr, chunk, faults, completed>>
     \/ \* the connection breaks
        /\ ~ctxDone[buffer] /\ ~ctxDone[reqCtx[d]] /\ ~respErr[d]
        /\ faults > 0
        /\ faults' = faults - 1
        /\ respErr' = [respErr EXCEPT ![d] = TRUE]
        /\ ReadError(d)
        /\ UNCHANGED <<respOff, chunk, completed>>
     \/ \* n > 0 bytes
        /\ ~ctxDone[buffer] /\ ~ctxDone[reqCtx[d]] /\ ~respErr[d]
        /\ \E n \in (IF short THEN 1..Min(MaxRead, remaining) ELSE {remaining}) :
             /\ n > 0
             /\ chunk' = [chunk EXCEPT ![d] = Chunk(reqURL[d], respOff[d], n)]
             /\ respOff' = [respOff EXCEPT ![d] = respOff[d] + n]
        /\ dlPc' = [dlPc EXCEPT ![d] = "write"]
        /\ UNCHANGED <<attempt, delay, consecutiveErrors, respErr, faults, completed>>
     \/ \* io.EOF: p.buffer.completed = true, return true
        /\ ~ctxDone[buffer] /\ ~ctxDone[reqCtx[d]] /\ ~respErr[d]
        /\ remaining = 0
        /\ completed' = [completed EXCEPT ![buffer] = TRUE]
        /\ dlPc' = [dlPc EXCEPT ![d] = "sendDone"]
        /\ UNCHANGED <<attempt, delay, consecutiveErrors, respOff, respErr, chunk, faults>>
  /\ UNCHANGED <<reqCtx, reqURL>>
  /\ UNCHANGED <<data, writePos, preloaded, ctxDone, downloadDone>>
  /\ UNCHANGED <<playerVars, pipeVars, position, delivered, ptVars, tickPc, userVars, panicked, restVars>>
  /\ UNCHANGED <<volVars, initCalls, cbVars, uiVars>>

\* p.buffer.write(chunk[:n]); consecutiveErrors = 0
DlWrite(d) ==
  /\ ~panicked /\ dlPc[d] = "write"
  /\ write(buffer, chunk[d])
  /\ chunk' = [chunk EXCEPT ![d] = <<>>]
  /\ consecutiveErrors' = [consecutiveErrors EXCEPT ![d] = 0]
  /\ dlPc' = [dlPc EXCEPT ![d] = "body"]
  /\ UNCHANGED <<attempt, delay, reqCtx, reqURL, respOff, respErr, faults>>
  /\ UNCHANGED <<completed, ctxDone, downloadDone>>
  /\ UNCHANGED <<playerVars, pipeVars, position, delivered, ptVars, tickPc, userVars, panicked, restVars>>
  /\ UNCHANGED <<volVars, initCalls, cbVars, uiVars>>

\* go p.onStateChange(p.state), go p.onError(p.lastError): a goroutine is started with
\* the value read at the go statement, when the callback is set
Notify(v) ==
  /\ cbPending' = IF (IF v = "error" THEN onError ELSE onStateChange)
                  THEN cbPending \cup {v}
                  ELSE cbPending
  /\ UNCHANGED <<onStateChange, onError, cbRunning>>

\* the last attempt failed: p.lastError is set under p.mu
DlGiveUp(d) ==
  /\ ~panicked /\ dlPc[d] = "giveUp"
  /\ mu = "free"
  /\ lastError' = TRUE
  /\ dlPc' = [dlPc EXCEPT ![d] = "sendDone"]
  /\ UNCHANGED <<attempt, delay, consecutiveErrors, reqCtx, reqURL, respOff, respErr, chunk, faults>>
  /\ UNCHANGED <<mu, state, ctrl, streamer, buffer, streamURL, isRecovering, speakerInit, nSess>>
  /\ UNCHANGED <<pipeVars, bufVars, position, delivered, ptVars, tickPc, userVars, panicked, restVars>>
  /\ UNCHANGED <<volVars, initCalls, uiVars>>
  /\ Notify("error")

\* the deferred p.buffer.downloadDone <- true, on a channel of capacity 1 that
\* no one receives from: the send on a full channel blocks for ever
DlSendDone(d) ==
  /\ ~panicked /\ dlPc[d] = "sendDone"
  /\ IF downloadDone[buffer] = 0
     THEN /\ downloadDone' = [downloadDone EXCEPT ![buffer] = 1]
          /\ dlPc' = [dlPc EXCEPT ![d] = "exited"]
     ELSE /\ dlPc' = [dlPc EXCEPT ![d] = "blocked"]
          /\ UNCHANGED downloadDone
  \* the goroutine uses its locals no more
  /\ attempt' = [attempt EXCEPT ![d] = 0]
  /\ delay' = [delay EXCEPT ![d] = 0]
  /\ consecutiveErrors' = [consecutiveErrors EXCEPT ![d] = 0]
  /\ reqCtx' = [reqCtx EXCEPT ![d] = NoSess]
  /\ reqURL' = [reqURL EXCEPT ![d] = NoURL]
  /\ respOff' = [respOff EXCEPT ![d] = 0]
  /\ respErr' = [respErr EXCEPT ![d] = FALSE]
  /\ UNCHANGED <<chunk, faults>>
  /\ UNCHANGED <<data, writePos, preloaded, completed, ctxDone>>
  /\ UNCHANGED <<playerVars, pipeVars, position, delivered, ptVars, tickPc, userVars, panicked, restVars>>
  /\ UNCHANGED <<volVars, initCalls, cbVars, uiVars>>

(***************************************************************************)
(* PositionTracker                                                         *)
(***************************************************************************)
\* what Update stores as the position at the time now
trackedPosition ==
  IF startTime = 0
  THEN lastPosition
  ELSE (now - startTime) - totalPaused - (IF pausedTime # 0 THEN now - pausedTime ELSE 0)

ptStart ==
  /\ startTime' = now
  /\ totalPaused' = 0
  /\ UNCHANGED <<pausedTime, lastPosition>>

\* a Stop that resets the position as well
ptStopReset ==
  /\ startTime' = 0
  /\ lastPosition' = 0
  /\ UNCHANGED <<pausedTime, totalPaused>>

ptStop ==
  /\ startTime' = 0
  /\ UNCHANGED <<pausedTime, totalPaused, lastPosition>>

ptPause ==
  /\ pausedTime' = now
  /\ UNCHANGED <<startTime, totalPaused, lastPosition>>

\* a Resume that forgets the time spent paused
ptResumeNoCredit ==
  /\ pausedTime' = 0
  /\ UNCHANGED <<startTime, totalPaused, lastPosition>>

ptResume ==
  IF pausedTime # 0
  THEN /\ totalPaused' = totalPaused + (now - pausedTime)
       /\ pausedTime' = 0
       /\ UNCHANGED <<startTime, lastPosition>>
  ELSE UNCHANGED <<startTime, pausedTime, totalPaused, lastPosition>>

ptUpdate ==
  IF startTime = 0
  THEN UNCHANGED <<startTime, pausedTime, totalPaused, lastPosition>>
  ELSE /\ lastPosition' = trackedPosition
       /\ UNCHANGED <<startTime, pausedTime, totalPaused>>

ptSetPosition(pos) ==
  /\ lastPosition' = pos
  /\ startTime' = now
  /\ totalPaused' = 0
  /\ pausedTime' = 0

(***************************************************************************)
(* The volume.  Linear volumes are counted in halves: 2 is 1.0.            *)
(***************************************************************************)
FullVolume == 2

\* volumeToBeepVolume: (linearVolume - 1.0) * 2.0 between the ends
volumeToBeepVolume(linearVolume) ==
  IF linearVolume <= 0 THEN -10
  ELSE IF linearVolume >= FullVolume THEN 0
  ELSE linearVolume - FullVolume

\* a volume stage that is never muted
NewVolumeNeverSilent(v) == <<volumeToBeepVolume(v), FALSE>>

\* &effects.Volume{Volume: p.volumeToBeepVolume(v), Silent: v == 0}
NewVolume(v) == <<volumeToBeepVolume(v), v = 0>>

(***************************************************************************)
(* The transport operations.  The caller holds p.mu from the call to the   *)
(* return.                                                                 *)
(***************************************************************************)
Return(r) ==
  /\ mu' = "free"
  /\ uPc' = "idle"
  /\ uRet' = r

\* Play(ctx, streamURL): the lock and the validation of the URL
\* (more: the caller may play again after its first session)
PlayCall(u, more) ==
  /\ ~panicked /\ uPc = "idle" /\ mu = "free"
  /\ uOp' = "Play" /\ uArg' = u
  /\ IF u = NoURL
     THEN /\ uRet' = "errEmptyURL"
          /\ UNCHANGED <<mu, uPc>>
     ELSE /\ nSess = 0 \/ (more /\ nSess < MaxSessions)
          /\ mu' = "user"
          /\ uPc' = "stopPause"
          /\ uRet' = "none"
  /\ UNCHANGED <<state, ctrl, streamer, buffer, streamURL, isRecovering, lastError,
                 speakerInit, nSess, uPolls>>
  /\ UNCHANGED <<pipeVars, bufVars, position, delivered, dlVars, ptVars, tickPc, panicked, restVars>>
  /\ UNCHANGED <<volVars, initCalls, cbVars, uiVars>>

\* Stop() and Close(): the lock
StopCall(op) ==
  /\ ~panicked /\ uPc = "idle" /\ mu = "free"
  /\ uOp' = op /\ uArg' = NoURL
  /\ mu' = "user"
  /\ uPc' = "stopPause"
  /\ uRet' = "none"
  /\ UNCHANGED <<state, ctrl, streamer, buffer, streamURL, isRecovering, lastError,
                 speakerInit, nSess, uPolls>>
  /\ UNCHANGED <<pipeVars, bufVars, position, delivered, dlVars, ptVars, tickPc, panicked, restVars>>
  /\ UNCHANGED <<volVars, initCalls, cbVars, uiVars>>

\* stopLocked, its first statement: the pause gate is engaged under the speaker lock
StopPause ==
  /\ ~panicked /\ uPc = "stopPause"
  /\ IF ctrl # NoSess
     THEN /\ spk = "free"
          /\ paused' = [paused EXCEPT ![ctrl] = TRUE]
     ELSE UNCHANGED paused
  /\ uPc' = "stopRest"
  /\ UNCHANGED <<uOp, uArg, uRet, uPolls>>
  /\ UNCHANGED <<spk, attached, out>>
  /\ UNCHANGED <<playerVars, bufVars, position, delivered, dlVars, ptVars, tickPc, panicked, restVars>>
  /\ UNCHANGED <<volVars, initCalls, cbVars, uiVars>>

\* a stopLocked that refuses, as Pause and Resume do, when nothing is loaded
StopRestStrict ==
  /\ ~panicked /\ uPc = "stopRest"
  /\ IF buffer # NoSess
     THEN ctxDone' = [ctxDone EXCEPT ![buffer] = TRUE]
     ELSE UNCHANGED ctxDone
  /\ streamer' = NoSess
  /\ ptStop
  /\ ctrl' = NoSess
  /\ streamURL' = NoURL
  /\ state' = "stopped"
  /\ IF uOp = "Play"
     THEN /\ uPc' = "start"
          /\ UNCHANGED <<mu, uRet>>
     ELSE IF state = "stopped" THEN Return("errState") ELSE Return("ok")
  /\ UNCHANGED <<uOp, uArg, uPolls, now>>
  /\ UNCHANGED <<buffer, isRecovering, lastError, speakerInit, nSess>>
  /\ UNCHANGED <<data, writePos, preloaded, completed, downloadDone>>
  /\ UNCHANGED <<pipeVars, position, delivered, dlVars, tickPc, panicked, restVars>>
  /\ UNCHANGED <<volVars, initCalls, uiVars>>
  /\ Notify("stopped")

\* stopLocked, the rest: the buffer's context is cancelled, the streamer closed,
\* the tracker stopped and the fields cleared; Stop and Close return here
StopRest ==
  /\ ~panicked /\ uPc = "stopRest"
  /\ IF buffer # NoSess
     THEN ctxDone' = [ctxDone EXCEPT ![buffer] = TRUE]
     ELSE UNCHANGED ctxDone
  /\ streamer' = NoSess
  /\ ptStop
  /\ ctrl' = NoSess
  /\ streamURL' = NoURL
  /\ state' = "stopped"
  /\ IF uOp = "Play"
     THEN /\ uPc' = "start"
          /\ UNCHANGED <<mu, uRet>>
     ELSE Return("ok")
  /\ UNCHANGED <<uOp, uArg, uPolls, now>>
  /\ UNCHANGED <<buffer, isRecovering, lastError, speakerInit, nSess>>
  /\ UNCHANGED <<data, writePos, preloaded, completed, downloadDone>>
  /\ UNCHANGED <<pipeVars, position, delivered, dlVars, tickPc, panicked, restVars>>
  /\ UNCHANGED <<volVars, initCalls, uiVars>>
  /\ Notify("stopped")

\* Play: the new buffer and its downloadStream goroutine
PlayStart ==
  /\ ~panicked /\ uPc = "start"
  /\ LET s == nSess + 1 IN
       /\ nSess' = s
       /\ streamURL' = uArg
       /\ buffer' = s
       /\ dlPc' = [dlPc EXCEPT ![s] = "start"]
  /\ uPolls' = 0
  /\ uPc' = "preload"
  /\ UNCHANGED <<uOp, uArg, uRet>>
  /\ UNCHANGED <<mu, state, ctrl, streamer, isRecovering, lastError, speakerInit>>
  /\ UNCHANGED <<attempt, delay, consecutiveErrors, reqCtx, reqURL, respOff, respErr, chunk, faults>>
  /\ UNCHANGED <<pipeVars, bufVars, position, delivered, ptVars, tickPc, panicked, restVars>>
  /\ UNCHANGED <<volVars, initCalls, cbVars, uiVars>>

\* waitForPreload: a tick of the 100 ms ticker
PlayPoll ==
  /\ ~panicked /\ uPc = "preload"
  /\ uPolls < PreloadPolls
  /\ IF isPreloaded(buffer)
     THEN uPc' = "setup" /\ UNCHANGED uPolls
     ELSE uPolls' = uPolls + 1 /\ UNCHANGED uPc
  /\ UNCHANGED <<uOp, uArg, uRet>>
  /\ UNCHANGED <<playerVars, pipeVars, bufVars, position, delivered, dlVars, ptVars, tickPc, panicked, restVars>>
  /\ UNCHANGED <<volVars, initCalls, cbVars, uiVars>>

\* waitForPreload: the deadline of preloadCtx, which falls on the last tick, or the
\* caller's context is done; Play cancels the buffer's context and returns the error
PlayPreloadTimeout ==
  /\ ~panicked /\ uPc = "preload"
  /\ uPolls >= PreloadPolls - 1 \/ ctxDone[buffer]
  /\ ctxDone' = [ctxDone EXCEPT ![buffer] = TRUE]
  /\ Return("errPreload")
  /\ UNCHANGED <<uOp, uArg, uPolls>>
  /\ UNCHANGED <<state, ctrl, streamer, buffer, streamURL, isRecovering, lastError,
                 speakerInit, nSess>>
  /\ UNCHANGED <<data, writePos, preloaded, completed, downloadDone>>
  /\ UNCHANGED <<pipeVars, position, delivered, dlVars, ptVars, tickPc, panicked, restVars>>
  /\ UNCHANGED <<volVars, initCalls, cbVars, uiVars>>

\* A sync.Once that forgets a failed call: Do runs the function again
OnceDoneIfOk == speakerInit = "ok"

\* p.speakerInit, a sync.Once: Do has run its function, whatever the outcome
OnceDone == speakerInit # "no"

\* Play: createStreamFromBuffer, speakerInit.Do, and the pipeline's fields
PlaySetup ==
  /\ ~panicked /\ uPc = "setup"
  /\ UNCHANGED <<cbVars, uiVars>>
  /\ LET s == buffer IN
     /\ position' = [position EXCEPT ![s] = 0]
     /\ delivered' = [delivered EXCEPT ![s] = <<>>]
     /\ \E r \in (IF OnceDone THEN {speakerInit} ELSE {"ok", "err"}) :
          /\ speakerInit' = r
          /\ initCalls' = IF OnceDone THEN initCalls ELSE initCalls + 1
          /\ IF r = "err"
             THEN /\ ctxDone' = [ctxDone EXCEPT ![s] = TRUE]
                  /\ Return("errSpeaker")
                  /\ UNCHANGED <<streamer, ctrl, paused, startTime, pausedTime,
                                 totalPaused, lastPosition, volCtrl>>
             ELSE /\ streamer' = s
                  /\ ctrl' = s
                  /\ volCtrl' = [volCtrl EXCEPT ![s] = NewVolume(volume)]
                  /\ paused' = [paused EXCEPT ![s] = FALSE]
                  /\ ptStart
                  /\ uPc' = "attach"
                  /\ UNCHANGED <<mu, uRet, ctxDone>>
  /\ UNCHANGED <<uOp, uArg, uPolls, now>>
  /\ UNCHANGED <<state, buffer, streamURL, isRecovering, lastError, nSess>>
  /\ UNCHANGED <<data, writePos, preloaded, completed, downloadDone>>
  /\ UNCHANGED <<spk, attached, out>>
  /\ UNCHANGED <<dlVars, tickPc, panicked, restVars, volume>>

\* Play: speaker.Play adds the pipeline to the mixer under the speaker lock;
\* the state is Playing and the tick goroutine starts
PlayAttach ==
  /\ ~panicked /\ uPc = "attach"
  /\ spk = "free"
  /\ attached' = [attached EXCEPT ![buffer] = TRUE]
  /\ state' = "playing"
  /\ tickPc' = [tickPc EXCEPT ![buffer] = "run"]
  /\ Return("ok")
  /\ UNCHANGED <<uOp, uArg, uPolls>>
  /\ UNCHANGED <<ctrl, streamer, buffer, streamURL, isRecovering, lastError, speakerInit, nSess>>
  /\ UNCHANGED <<spk, paused, out>>
  /\ UNCHANGED <<bufVars, position, delivered, dlVars, ptVars, panicked, restVars>>
  /\ UNCHANGED <<volVars, initCalls, uiVars>>
  /\ Notify("playing")

\* Pause(): the lock and the check of the state
PauseCall ==
  /\ ~panicked /\ uPc = "idle" /\ mu = "free"
  /\ uOp' = "Pause" /\ uArg' = NoURL
  /\ IF state # "playing"
     THEN /\ uRet' = "errState"
          /\ UNCHANGED <<mu, uPc>>
     ELSE /\ mu' = "user"
          /\ uPc' = "pauseGate"
          /\ uRet' = "none"
  /\ UNCHANGED <<state, ctrl, streamer, buffer, streamURL, isRecovering, lastError,
                 speakerInit, nSess, uPolls>>
  /\ UNCHANGED <<pipeVars, bufVars, position, delivered, dlVars, ptVars, tickPc, panicked, restVars>>
  /\ UNCHANGED <<volVars, initCalls, cbVars, uiVars>>

\* Pause(): the gate is engaged under the speaker lock, the tracker paused,
\* the state set
PauseGate ==
  /\ ~panicked /\ uPc = "pauseGate"
  /\ IF ctrl # NoSess
     THEN /\ spk = "free"
          /\ paused' = [paused EXCEPT ![ctrl] = TRUE]
          /\ ptPause
     ELSE UNCHANGED <<paused, startTime, pausedTime, totalPaused, lastPosition>>
  /\ state' = "paused"
  /\ Return("ok")
  /\ UNCHANGED <<uOp, uArg, uPolls, now>>
  /\ UNCHANGED <<ctrl, streamer, buffer, streamURL, isRecovering, lastError, speakerInit, nSess>>
  /\ UNCHANGED <<spk, attached, out>>
  /\ UNCHANGED <<bufVars, position, delivered, dlVars, tickPc, panicked, restVars>>
  /\ UNCHANGED <<volVars, initCalls, uiVars>>
  /\ Notify("paused")

\* Resume(): the lock and the check of the state
ResumeCall ==
  /\ ~panicked /\ uPc = "idle" /\ mu = "free"
  /\ uOp' = "Resume" /\ uArg' = NoURL
  /\ IF state # "paused"
     THEN /\ uRet' = "errState"
          /\ UNCHANGED <<mu, uPc>>
     ELSE /\ mu' = "user"
          /\ uPc' = "resumeGate"
          /\ uRet' = "none"
  /\ UNCHANGED <<state, ctrl, streamer, buffer, streamURL, isRecovering, lastError,
                 speakerInit, nSess, uPolls>>
  /\ UNCHANGED <<pipeVars, bufVars, position, delivered, dlVars, ptVars, tickPc, panicked, restVars>>
  /\ UNCHANGED <<volVars, initCalls, cbVars, uiVars>>

\* Resume(): the gate is disengaged under the speaker lock, the tracker resumed,
\* the state set
ResumeGate ==
  /\ ~panicked /\ uPc = "resumeGate"
  /\ IF ctrl # NoSess
     THEN /\ spk = "free"
          /\ paused' = [paused EXCEPT ![ctrl] = FALSE]
          /\ ptResume
     ELSE UNCHANGED <<paused, startTime, pausedTime, totalPaused, lastPosition>>
  /\ state' = "playing"
  /\ Return("ok")
  /\ UNCHANGED <<uOp, uArg, uPolls, now>>
  /\ UNCHANGED <<ctrl, streamer, buffer, streamURL, isRecovering, lastError, speakerInit, nSess>>
  /\ UNCHANGED <<spk, attached, out>>
  /\ UNCHANGED <<bufVars, position, delivered, dlVars, tickPc, panicked, restVars>>
  /\ UNCHANGED <<volVars, initCalls, uiVars>>
  /\ Notify("playing")

\* p.mu.RLock() succeeds only while no one holds the write lock: sync.RWMutex
\* is not reentrant
RLockable == mu = "free"

\* GetDuration(), without its lock: the length the decoder derives from the bytes
\* its reader can reach (one position tick per unit), 0 without a streamer
GetDuration == IF streamer = NoSess THEN 0 ELSE writePos[streamer]

\* Seek(position): the lock and the checks, then GetDuration(), which takes the
\* read lock of p.mu, then the decoder's Seek and the tracker's SetPosition
Seek(pos) ==
  /\ ~panicked
  /\ \/ /\ uPc = "idle" /\ mu = "free"
        /\ uOp' = "Seek" /\ uArg' = pos
        /\ IF pos < 0
           THEN uRet' = "errNegative" /\ UNCHANGED <<mu, uPc>>
           ELSE IF streamer = NoSess
           THEN uRet' = "errNoStream" /\ UNCHANGED <<mu, uPc>>
           ELSE mu' = "user" /\ uPc' = "seekDuration" /\ uRet' = "none"
        /\ UNCHANGED <<ptVars, position, delivered>>
     \/ /\ uPc = "seekDuration" /\ RLockable
        /\ IF uArg > GetDuration
           THEN /\ Return("errRange")
                /\ UNCHANGED <<ptVars, position, delivered>>
           ELSE /\ spk = "free"
                /\ position' = [position EXCEPT ![streamer] = uArg]
                /\ delivered' = [delivered EXCEPT ![streamer] = <<>>]
                /\ ptSetPosition(uArg)
                /\ Return("ok")
                /\ UNCHANGED now
        /\ UNCHANGED <<uOp, uArg>>
  /\ UNCHANGED <<state, ctrl, streamer, buffer, streamURL, isRecovering, lastError,
                 speakerInit, nSess, uPolls>>
  /\ UNCHANGED <<pipeVars, bufVars, dlVars, tickPc, panicked, restVars>>
  /\ UNCHANGED <<volVars, initCalls, cbVars, uiVars>>

\* a SetVolume that stores the volume before it checks the range
SetVolumeCallStoreFirst(v) ==
  /\ ~panicked /\ uPc = "idle"
  /\ uOp' = "SetVolume" /\ uArg' = v
  /\ mu = "free"
  /\ volume' = v
  /\ IF v < 0 \/ v > FullVolume
     THEN /\ uRet' = "errVolume"
          /\ UNCHANGED <<mu, uPc>>
     ELSE IF ctrl # NoSess
          THEN mu' = "user" /\ uPc' = "volGate" /\ uRet' = "none"
          ELSE uRet' = "ok" /\ UNCHANGED <<mu, uPc>>
  /\ UNCHANGED <<state, ctrl, streamer, buffer, streamURL, isRecovering, lastError,
                 speakerInit, nSess, uPolls, volCtrl, initCalls, cbVars, uiVars>>
  /\ UNCHANGED <<pipeVars, bufVars, position, delivered, dlVars, ptVars, tickPc, panicked, restVars>>

\* SetVolume(volume): the check of the range, before the lock; then the lock and
\* p.volume
SetVolumeCall(v) ==
  /\ ~panicked /\ uPc = "idle"
  /\ uOp' = "SetVolume" /\ uArg' = v
  /\ IF v < 0 \/ v > FullVolume
     THEN /\ uRet' = "errVolume"
          /\ UNCHANGED <<mu, uPc, volume>>
     ELSE /\ mu = "free"
          /\ volume' = v
          /\ IF ctrl # NoSess
             THEN mu' = "user" /\ uPc' = "volGate" /\ uRet' = "none"
             ELSE uRet' = "ok" /\ UNCHANGED <<mu, uPc>>
  /\ UNCHANGED <<state, ctrl, streamer, buffer, streamURL, isRecovering, lastError,
                 speakerInit, nSess, uPolls, volCtrl, initCalls, cbVars, uiVars>>
  /\ UNCHANGED <<pipeVars, bufVars, position, delivered, dlVars, ptVars, tickPc, panicked, restVars>>

\* SetVolume: the volume stage is set under the speaker lock
SetVolumeGate ==
  /\ ~panicked /\ uPc = "volGate"
  /\ spk = "free"
  /\ volCtrl' = [volCtrl EXCEPT ![ctrl] = NewVolume(volume)]
  /\ Return("ok")
  /\ UNCHANGED <<uOp, uArg, uPolls, volume, initCalls, cbVars, uiVars>>
  /\ UNCHANGED <<state, ctrl, streamer, buffer, streamURL, isRecovering, lastError,
                 speakerInit, nSess>>
  /\ UNCHANGED <<pipeVars, bufVars, position, delivered, dlVars, ptVars, tickPc, panicked, restVars>>

(***************************************************************************)
(* The concurrent caller of GetState, GetPosition, GetDuration, GetVolume: *)
(* each takes the read lock of p.mu, reads and returns.                    *)
(***************************************************************************)
ObsCall ==
  /\ ~panicked /\ oPc = "idle"
  /\ oPc' = "rlock"
  /\ UNCHANGED <<mixPc, mixS, rdPolls, recPc, wasPlaying>>
  /\ UNCHANGED <<playerVars, pipeVars, bufVars, position, delivered, dlVars, ptVars, tickPc, userVars,
                 panicked>>
  /\ UNCHANGED <<volVars, initCalls, cbVars, uiVars>>

ObsReturn ==
  /\ ~panicked /\ oPc = "rlock"
  /\ RLockable
  /\ oPc' = "idle"
  /\ UNCHANGED <<mixPc, mixS, rdPolls, recPc, wasPlaying>>
  /\ UNCHANGED <<playerVars, pipeVars, bufVars, position, delivered, dlVars, ptVars, tickPc, userVars,
                 panicked>>
  /\ UNCHANGED <<volVars, initCalls, cbVars, uiVars>>

(***************************************************************************)
(* The context the caller passed to Play: the buffer's context is derived  *)
(* from it (context.WithCancel(ctx)) and is done when the caller cancels   *)
(* it or its deadline passes.                                              *)
(***************************************************************************)
CtxCancel ==
  /\ ~panicked
  /\ nSess > 0 /\ ~ctxDone[nSess]
  /\ ctxDone' = [ctxDone EXCEPT ![nSess] = TRUE]
  /\ UNCHANGED <<data, writePos, preloaded, completed, downloadDone>>
  /\ UNCHANGED <<playerVars, pipeVars, position, delivered, dlVars, ptVars, tickPc, userVars, panicked,
                 restVars>>
  /\ UNCHANGED <<volVars, initCalls, cbVars, uiVars>>

\* the clock: time.Now() is one tick later
Tock ==
  /\ ~panicked /\ now < MaxNow
  /\ now' = now + 1
  /\ UNCHANGED <<startTime, pausedTime, totalPaused, lastPosition>>
  /\ UNCHANGED <<playerVars, pipeVars, bufVars, position, delivered, dlVars, tickPc, userVars,
                 panicked, restVars>>
  /\ UNCHANGED <<volVars, initCalls, cbVars, uiVars>>

(***************************************************************************)
(* StreamBuffer.isHealthy.  readPos is a field of StreamBuffer that no     *)
(* code assigns: the BufferReader counts in its own position.              *)
(***************************************************************************)
readPos == [s \in Sess |-> 0]

isHealthy(b) ==
  LET available == writePos[b] - readPos[b]
      healthThreshold == preloadSize \div 4
  IN  IF completed[b] THEN available > 0 ELSE available > healthThreshold

(***************************************************************************)
(* The mixer.  A pull of pipeline s runs under the speaker lock:           *)
(* beep.Seq(ctrl, callback), where ctrl streams silence while Paused and   *)
(* otherwise the decoder's samples, which the decoder makes from the bytes *)
(* BufferReader.Read returns.  Read sleeps and polls while the buffer is   *)
(* dry; at io.EOF the decoder is drained and Seq runs the callback, which  *)
(* takes p.mu, sets the state and sends on the session's done channel.     *)
(***************************************************************************)
\* a Read that copies from the buffer's readPos, not from the reader's position
ReadCopyAtReadPos(s, lenP) ==
  LET available == writePos[s] - position[s]
      toCopy == Min(lenP, available)
  IN  /\ delivered' = [delivered EXCEPT ![s] =
                          @ \o SubSeq(data[s], readPos[s] + 1, readPos[s] + toCopy)]
      /\ position' = [position EXCEPT ![s] = position[s] + toCopy]

\* BufferReader.Read copies toCopy bytes, data[position : position+toCopy], and
\* advances its position
ReadCopy(s, lenP) ==
  LET available == writePos[s] - position[s]
      toCopy == Min(lenP, available)
  IN  /\ delivered' = [delivered EXCEPT ![s] =
                          @ \o SubSeq(data[s], position[s] + 1, position[s] + toCopy)]
      /\ position' = [position EXCEPT ![s] = position[s] + toCopy]

MixPull(s) ==
  /\ ~panicked /\ mixPc = "idle" /\ spk = "free"
  /\ attached[s]
  /\ LET available == writePos[s] - position[s] IN
     IF paused[s]
     THEN /\ out' = [out EXCEPT ![s] = "silence"]
          /\ UNCHANGED <<spk, position, delivered, mixPc, mixS, rdPolls>>
     ELSE IF available > 0
     THEN /\ \E lenP \in 1..MaxPull : ReadCopy(s, lenP)
          /\ out' = [out EXCEPT ![s] = "audio"]
          /\ UNCHANGED <<spk, mixPc, mixS, rdPolls>>
     ELSE /\ spk' = "mixer"
          /\ mixS' = s
          /\ mixPc' = IF completed[s] THEN "callback" ELSE "read"
          /\ rdPolls' = 0
          /\ out' = [out EXCEPT ![s] = "none"]
          /\ UNCHANGED <<position, delivered>>
  /\ UNCHANGED <<attached, paused>>
  /\ UNCHANGED <<oPc, recPc, wasPlaying>>
  /\ UNCHANGED <<playerVars, bufVars, dlVars, ptVars, tickPc, userVars, panicked>>
  /\ UNCHANGED <<volVars, initCalls, cbVars, uiVars>>

\* a wait loop of Read with no bound on its turns: it ends with data or with
\* completed only
MixPollUnbounded ==
  /\ ~panicked /\ mixPc = "read"
  /\ LET s == mixS
         available == writePos[s] - position[s]
     IN  IF available = 0 /\ completed[s]
         THEN /\ mixPc' = "callback"
              /\ UNCHANGED <<spk, mixS, rdPolls, position, delivered, out>>
         ELSE IF available = 0
         THEN /\ rdPolls' = rdPolls + 1
              /\ UNCHANGED <<spk, mixPc, mixS, position, delivered, out>>
         ELSE /\ \E lenP \in 1..MaxPull : ReadCopy(s, lenP)
              /\ out' = [out EXCEPT ![s] = "audio"]
              /\ spk' = "free" /\ mixPc' = "idle" /\ mixS' = NoSess /\ rdPolls' = 0
  /\ UNCHANGED <<attached, paused>>
  /\ UNCHANGED <<oPc, recPc, wasPlaying>>
  /\ UNCHANGED <<playerVars, bufVars, dlVars, ptVars, tickPc, userVars, panicked>>
  /\ UNCHANGED <<volVars, initCalls, cbVars, uiVars>>

\* one turn of the wait loop of BufferReader.Read: time.Sleep(100 ms), then
\* writePos and completed are read again
MixPoll ==
  /\ ~panicked /\ mixPc = "read"
  /\ LET s == mixS
         available == writePos[s] - position[s]
     IN  IF available = 0 /\ (completed[s] \/ rdPolls + 1 >= maxWait)
         THEN \* io.EOF
              /\ mixPc' = "callback"
              /\ UNCHANGED <<spk, mixS, rdPolls, position, delivered, out>>
         ELSE IF available = 0
         THEN /\ rdPolls' = rdPolls + 1
              /\ UNCHANGED <<spk, mixPc, mixS, position, delivered, out>>
         ELSE /\ \E lenP \in 1..MaxPull : ReadCopy(s, lenP)
              /\ out' = [out EXCEPT ![s] = "audio"]
              /\ spk' = "free" /\ mixPc' = "idle" /\ mixS' = NoSess /\ rdPolls' = 0
  /\ UNCHANGED <<attached, paused>>
  /\ UNCHANGED <<oPc, recPc, wasPlaying>>
  /\ UNCHANGED <<playerVars, bufVars, dlVars, ptVars, tickPc, userVars, panicked>>
  /\ UNCHANGED <<volVars, initCalls, cbVars, uiVars>>

\* the callback of Play: p.mu.Lock(); p.state = StateStopped;
\* p.positionTracker.Stop(); p.mu.Unlock()
MixCallback ==
  /\ ~panicked /\ mixPc = "callback"
  /\ mu = "free"
  /\ state' = "stopped"
  /\ ptStop
  /\ mixPc' = "sendDone"
  /\ UNCHANGED <<mixS, rdPolls, now>>
  /\ UNCHANGED <<mu, ctrl, streamer, buffer, streamURL, isRecovering, lastError, speakerInit,
                 nSess>>
  /\ UNCHANGED <<oPc, recPc, wasPlaying>>
  /\ UNCHANGED <<pipeVars, bufVars, position, delivered, dlVars, tickPc, userVars, panicked>>
  /\ UNCHANGED <<volVars, initCalls, uiVars>>
  /\ Notify("stopped")

\* done <- true meets the <-done of the session's trackPositionWithBuffer, which
\* returns; the drained Seq leaves the mixer and the speaker lock is released
MixSendDone ==
  /\ ~panicked /\ mixPc = "sendDone"
  /\ tickPc[mixS] = "run"
  /\ tickPc' = [tickPc EXCEPT ![mixS] = "exited"]
  /\ attached' = [attached EXCEPT ![mixS] = FALSE]
  /\ spk' = "free" /\ mixPc' = "idle" /\ mixS' = NoSess /\ rdPolls' = 0
  /\ UNCHANGED <<paused, out>>
  /\ UNCHANGED <<oPc, recPc, wasPlaying>>
  /\ UNCHANGED <<playerVars, bufVars, position, delivered, dlVars, ptVars, userVars, panicked>>
  /\ UNCHANGED <<volVars, initCalls, cbVars, uiVars>>

(***************************************************************************)
(* BufferReader.Reset and BufferReader.Seek, which the decoder calls on    *)
(* its source.  Both take the reader's mutex, which a Read holds while it  *)
(* waits.                                                                  *)
(***************************************************************************)
\* a reader of buffer s has been made and no Read of it is under way
ReaderFree(s) == (streamer = s \/ attached[s]) /\ ~(mixPc = "read" /\ mixS = s)

SeekStart == 0
SeekCurrent == 1
SeekEnd == 2

\* Seek without the check of the new position against writePos
seekPosUnchecked(s, offset, whence) ==
  LET newPos == CASE whence = SeekStart -> offset
                  [] whence = SeekCurrent -> position[s] + offset
                  [] whence = SeekEnd -> writePos[s] + offset
                  [] OTHER -> -1
  IN  IF newPos < 0 THEN -1 ELSE newPos

\* the new position of Seek(offset, whence), or -1 for errors.New("invalid seek")
seekPos(s, offset, whence) ==
  LET newPos == CASE whence = SeekStart -> offset
                  [] whence = SeekCurrent -> position[s] + offset
                  [] whence = SeekEnd -> writePos[s] + offset
                  [] OTHER -> -1
  IN  IF newPos < 0 \/ newPos > writePos[s] THEN -1 ELSE newPos

BrReset(s) ==
  /\ ~panicked /\ ReaderFree(s)
  /\ position' = [position EXCEPT ![s] = 0]
  /\ delivered' = [delivered EXCEPT ![s] = <<>>]
  /\ UNCHANGED <<playerVars, pipeVars, bufVars, dlVars, ptVars, tickPc, userVars, panicked,
                 restVars, volVars, initCalls, cbVars, uiVars>>

BrSeek(s, offset, whence) ==
  /\ ~panicked /\ ReaderFree(s)
  /\ LET newPos == seekPos(s, offset, whence) IN
       /\ position' = [position EXCEPT ![s] = IF newPos < 0 THEN position[s] ELSE newPos]
       /\ delivered' = [delivered EXCEPT ![s] = IF newPos < 0 THEN @ ELSE <<>>]
  /\ UNCHANGED <<playerVars, pipeVars, bufVars, dlVars, ptVars, tickPc, userVars, panicked,
                 restVars, volVars, initCalls, cbVars, uiVars>>

(***************************************************************************)
(* trackPositionWithBuffer(done) of session s                              *)
(***************************************************************************)
\* case <-ticker.C: p.positionTracker.Update()
TickUpdate(s) ==
  /\ ~panicked /\ tickPc[s] = "run"
  /\ ptUpdate
  /\ UNCHANGED now
  /\ UNCHANGED <<playerVars, pipeVars, bufVars, position, delivered, dlVars, tickPc, userVars, panicked,
                 restVars>>
  /\ UNCHANGED <<volVars, initCalls, cbVars, uiVars>>

\* case <-bufferHealthTicker.C: p.buffer and p.isRecovering are read without a
\* lock; an unhealthy buffer starts attemptBufferRecovery in a goroutine of its own
TickHealth(s) ==
  /\ ~panicked /\ tickPc[s] = "run"
  /\ buffer # NoSess
  /\ ~isHealthy(buffer) /\ ~isRecovering
  /\ \E r \in 1..MaxRecov :
       /\ recPc[r] = "none"
       /\ \A q \in 1..(r - 1) : recPc[q] # "none"
       /\ recPc' = [recPc EXCEPT ![r] = "lock"]
  /\ UNCHANGED <<oPc, mixPc, mixS, rdPolls, wasPlaying>>
  /\ UNCHANGED <<playerVars, pipeVars, bufVars, position, delivered, dlVars, ptVars, tickPc, userVars,
                 panicked>>
  /\ UNCHANGED <<volVars, initCalls, cbVars, uiVars>>

(***************************************************************************)
(* attemptBufferRecovery, goroutine r.  p.ctrl and p.buffer are read       *)
(* without p.mu at every use.                                              *)
(***************************************************************************)
\* p.mu.Lock(); if p.isRecovering { return }; p.isRecovering = true; p.mu.Unlock()
RecLock(r) ==
  /\ ~panicked /\ recPc[r] = "lock"
  /\ mu = "free"
  /\ IF isRecovering
     THEN /\ recPc' = [recPc EXCEPT ![r] = "none"]
          /\ UNCHANGED isRecovering
     ELSE /\ recPc' = [recPc EXCEPT ![r] = "check"]
          /\ isRecovering' = TRUE
  /\ UNCHANGED <<mu, state, ctrl, streamer, buffer, streamURL, lastError, speakerInit, nSess>>
  /\ UNCHANGED <<oPc, mixPc, mixS, rdPolls, wasPlaying>>
  /\ UNCHANGED <<pipeVars, bufVars, position, delivered, dlVars, ptVars, tickPc, userVars, panicked>>
  /\ UNCHANGED <<volVars, initCalls, cbVars, uiVars>>

\* if p.ctrl != nil
RecCheck(r) ==
  /\ ~panicked /\ recPc[r] = "check"
  /\ recPc' = [recPc EXCEPT ![r] = IF ctrl # NoSess THEN "pause" ELSE "unflag"]
  /\ UNCHANGED <<oPc, mixPc, mixS, rdPolls, wasPlaying>>
  /\ UNCHANGED <<playerVars, pipeVars, bufVars, position, delivered, dlVars, ptVars, tickPc, userVars,
                 panicked>>
  /\ UNCHANGED <<volVars, initCalls, cbVars, uiVars>>

\* speaker.Lock(); wasPlaying := !p.ctrl.Paused; p.ctrl.Paused = true;
\* speaker.Unlock(): a nil p.ctrl is dereferenced
RecPause(r) ==
  /\ ~panicked /\ recPc[r] = "pause"
  /\ spk = "free"
  /\ IF ctrl = NoSess
     THEN /\ panicked' = TRUE
          /\ UNCHANGED <<paused, recPc, wasPlaying>>
     ELSE /\ wasPlaying' = [wasPlaying EXCEPT ![r] = ~paused[ctrl]]
          /\ paused' = [paused EXCEPT ![ctrl] = TRUE]
          /\ recPc' = [recPc EXCEPT ![r] = "sleep"]
          /\ UNCHANGED panicked
  /\ UNCHANGED <<spk, attached, out>>
  /\ UNCHANGED <<oPc, mixPc, mixS, rdPolls>>
  /\ UNCHANGED <<playerVars, bufVars, position, delivered, dlVars, ptVars, tickPc, userVars>>
  /\ UNCHANGED <<volVars, initCalls, cbVars, uiVars>>

\* a recovery that never takes the gate off again after its sleep
RecWakeNoResume(r) ==
  /\ ~panicked /\ recPc[r] = "sleep"
  /\ recPc' = [recPc EXCEPT ![r] = "unflag"]
  /\ UNCHANGED <<oPc, mixPc, mixS, rdPolls, wasPlaying>>
  /\ UNCHANGED <<playerVars, pipeVars, bufVars, position, delivered, dlVars, ptVars, tickPc, userVars,
                 panicked>>
  /\ UNCHANGED <<volVars, initCalls, cbVars, uiVars>>

\* time.Sleep(p.reconnectDelay) is over:
\* if p.buffer != nil && p.buffer.isHealthy() && wasPlaying
RecWake(r) ==
  /\ ~panicked /\ recPc[r] = "sleep"
  /\ recPc' = [recPc EXCEPT ![r] =
                  IF buffer # NoSess /\ isHealthy(buffer) /\ wasPlaying[r]
                  THEN "resume" ELSE "unflag"]
  /\ UNCHANGED <<oPc, mixPc, mixS, rdPolls, wasPlaying>>
  /\ UNCHANGED <<playerVars, pipeVars, bufVars, position, delivered, dlVars, ptVars, tickPc, userVars,
                 panicked>>
  /\ UNCHANGED <<volVars, initCalls, cbVars, uiVars>>

\* speaker.Lock(); p.ctrl.Paused = false; speaker.Unlock()
RecResume(r) ==
  /\ ~panicked /\ recPc[r] = "resume"
  /\ spk = "free"
  /\ IF ctrl = NoSess
     THEN /\ panicked' = TRUE
          /\ UNCHANGED <<paused, recPc>>
     ELSE /\ paused' = [paused EXCEPT ![ctrl] = FALSE]
          /\ recPc' = [recPc EXCEPT ![r] = "unflag"]
          /\ UNCHANGED panicked
  /\ UNCHANGED <<spk, attached, out>>
  /\ UNCHANGED <<oPc, mixPc, mixS, rdPolls, wasPlaying>>
  /\ UNCHANGED <<playerVars, bufVars, position, delivered, dlVars, ptVars, tickPc, userVars>>
  /\ UNCHANGED <<volVars, initCalls, cbVars, uiVars>>

\* the deferred p.mu.Lock(); p.isRecovering = false; p.mu.Unlock()
RecUnflag(r) ==
  /\ ~panicked /\ recPc[r] = "unflag"
  /\ mu = "free"
  /\ isRecovering' = FALSE
  /\ recPc' = [recPc EXCEPT ![r] = "none"]
  /\ wasPlaying' = [wasPlaying EXCEPT ![r] = FALSE]
  /\ UNCHANGED <<mu, state, ctrl, streamer, buffer, streamURL, lastError, speakerInit, nSess>>
  /\ UNCHANGED <<oPc, mixPc, mixS, rdPolls>>
  /\ UNCHANGED <<pipeVars, bufVars, position, delivered, dlVars, ptVars, tickPc, userVars, panicked>>
  /\ UNCHANGED <<volVars, initCalls, cbVars, uiVars>>

(***************************************************************************)
(* The initial state: NewBufferedStreamPlayer(), no session yet.           *)
(***************************************************************************)
InitRest ==
  /\ mu = "free"
  /\ ctrl = NoSess /\ streamer = NoSess /\ buffer = NoSess /\ streamURL = NoURL
  /\ isRecovering = FALSE /\ lastError = FALSE /\ speakerInit = "no" /\ nSess = 0
  /\ spk = "free"
  /\ attached = [s \in Sess |-> FALSE]
  /\ paused = [s \in Sess |-> FALSE]
  /\ out = [s \in Sess |-> "none"]
  /\ data = [s \in Sess |-> <<>>]
  /\ writePos = [s \in Sess |-> 0]
  /\ preloaded = [s \in Sess |-> FALSE]
  /\ completed = [s \in Sess |-> FALSE]
  /\ ctxDone = [s \in Sess |-> FALSE]
  /\ downloadDone = [s \in Sess |-> 0]
  /\ position = [s \in Sess |-> 0]
  /\ delivered = [s \in Sess |-> <<>>]
  /\ dlPc = [s \in Sess |-> "none"]
  /\ attempt = [s \in Sess |-> 0]
  /\ delay = [s \in Sess |-> 0]
  /\ consecutiveErrors = [s \in Sess |-> 0]
  /\ reqCtx = [s \in Sess |-> NoSess]
  /\ reqURL = [s \in Sess |-> NoURL]
  /\ respOff = [s \in Sess |-> 0]
  /\ respErr = [s \in Sess |-> FALSE]
  /\ chunk = [s \in Sess |-> <<>>]
  /\ startTime = 0 /\ pausedTime = 0 /\ totalPaused = 0 /\ now = 1
  /\ tickPc = [s \in Sess |-> "none"]
  /\ uPc = "idle" /\ uOp = "none" /\ uArg = NoURL /\ uRet = "none" /\ uPolls = 0
  /\ oPc = "idle"
  /\ mixPc = "idle" /\ mixS = NoSess /\ rdPolls = 0
  /\ recPc = [r \in 1..MaxRecov |-> "none"]
  /\ wasPlaying = [r \in 1..MaxRecov |-> FALSE]
  /\ panicked = FALSE
  /\ volume = FullVolume
  /\ initCalls = 0
  /\ cbPending = {} /\ cbRunning = "none"
  /\ uiPosition = 0
  /\ savedPosition = 0 /\ uiCmd = "none" /\ uiTick = TRUE
  /\ signalCount = [s \in Sess \cup {NoSess} |-> 0]
  /\ volCtrl = [s \in Sess |-> <<>>]

\* a stopped player at position 0 and an idle component without a track
InitPlayer ==
  /\ InitRest
  /\ state = "stopped" /\ lastPosition = 0
  /\ uiState = "idle" /\ currentTrack = NoTrack /\ prematureStopDetected = FALSE

\* no callback is set (SetStateChangeCallback, SetErrorCallback were not called)
NoCallbacks == onStateChange = FALSE /\ onError = FALSE

\* a network that never fails
Init == InitPlayer /\ faults = 0 /\ NoCallbacks

\* a network that may fail MaxFaults times
InitDl == InitPlayer /\ faults = MaxFaults /\ NoCallbacks

\* the steps of the downloadStream goroutines but the one after the last attempt
Downloader(short) ==
  \E d \in Sess : \/ DlBackoffCancelled(d) \/ DlRequest(d) \/ DlRead(d, short)
                   \/ DlWrite(d) \/ DlSendDone(d)

\* the step after the last attempt, which only a downloader reaches whose
\* attempts have all failed
DownloaderGiveUp == \E d \in Sess : DlGiveUp(d)

\* no downloadStream goroutine is running
DownloadsEnded == \A s \in Sess : dlPc[s] \in {"none", "exited", "blocked"}

StopLocked == StopPause \/ StopRest

PlaySteps == PlayStart \/ PlayPoll \/ PlayPreloadTimeout \/ PlaySetup \/ PlayAttach

Mixer == (\E s \in Sess : MixPull(s)) \/ MixPoll \/ MixCallback \/ MixSendDone

Recovery ==
  \E r \in 1..MaxRecov : \/ RecLock(r) \/ RecCheck(r) \/ RecPause(r) \/ RecWake(r)
                          \/ RecResume(r) \/ RecUnflag(r)

SeekArgs == {-1, 0, 2}

\* the volumes a caller passes: -0.5, 0.0, 0.5, 1.0, 1.5
VolumeArgs == {-1, 0, 1, 2, 3}

(***************************************************************************)
(* Spec: the player with one session, every transport operation, the      *)
(* snapshot caller, the mixer and the tick goroutine; the server sends the *)
(* body in one piece and the network never fails, so that no downloader    *)
(* uses up its attempts.                                                   *)
(***************************************************************************)
Next ==
  \/ \E u \in {NoURL, 1} : PlayCall(u, FALSE)
  \/ \E op \in {"Stop", "Close"} : StopCall(op)
  \/ StopLocked \/ PlaySteps
  \/ PauseCall \/ PauseGate \/ ResumeCall \/ ResumeGate
  \/ \E pos \in SeekArgs : Seek(pos)
  \/ \E v \in VolumeArgs : SetVolumeCall(v)
  \/ SetVolumeGate
  \/ ObsCall \/ ObsReturn
  \/ CtxCancel
  \/ Downloader(FALSE)
  \/ Mixer
  \/ \E s \in Sess : TickUpdate(s)

Spec == Init /\ [][Next]_vars

(***************************************************************************)
(* SpecDl: the download of one session from a server of four resources     *)
(* over a network that may fail, reads of any size; Play, Stop and Close.  *)
(***************************************************************************)
NextDl ==
  \/ \E u \in {NoURL} \cup URLs : PlayCall(u, FALSE)
  \/ \E op \in {"Stop", "Close"} : StopCall(op)
  \/ StopLocked \/ PlaySteps
  \/ CtxCancel
  \/ Downloader(TRUE) \/ DownloaderGiveUp

SpecDl == InitDl /\ [][NextDl]_vars

(***************************************************************************)
(* SpecHandover: Play after Play (or Stop): the goroutines of the earlier  *)
(* session beside those of the later one.                                  *)
(***************************************************************************)
NextHandover ==
  \/ PlayCall(1, TRUE)
  \/ StopCall("Stop")
  \/ StopLocked \/ PlaySteps
  \/ Downloader(FALSE) \/ DownloaderGiveUp

SpecHandover == Init /\ [][NextHandover]_vars

(***************************************************************************)
(* SpecRecovery: two sessions with the mixer, the tick goroutines and      *)
(* attemptBufferRecovery; Play, Stop, Pause and Resume.  The caller plays  *)
(* a second time only when the download of the first session has ended.    *)
(***************************************************************************)
NextRecovery ==
  \/ PlayCall(1, DownloadsEnded)
  \/ StopCall("Stop")
  \/ StopLocked \/ PlaySteps
  \/ PauseCall \/ PauseGate \/ ResumeCall \/ ResumeGate
  \/ Downloader(FALSE)
  \/ Mixer
  \/ \E s \in Sess : TickHealth(s)
  \/ Recovery

SpecRecovery == Init /\ [][NextRecovery]_vars

(***************************************************************************)
(* The recovery with a user who plays and stops, and starts no operation   *)
(* while a recovery has the gate engaged (it sleeps, or is about to        *)
(* disengage the gate).                                                    *)
(***************************************************************************)
RecoveryHoldsGate == \E r \in 1..MaxRecov : recPc[r] \in {"sleep", "resume"}

NextQuiet ==
  \/ /\ ~RecoveryHoldsGate
     /\ \/ PlayCall(1, DownloadsEnded)
        \/ StopCall("Stop")
  \/ StopLocked \/ PlaySteps
  \/ Downloader(FALSE)
  \/ Mixer
  \/ (\E s \in Sess : TickHealth(s))
  \/ Recovery

\* the recovery goroutine and the mixer are scheduled in the end
SpecQuiet == Init /\ [][NextQuiet]_vars /\ WF_vars(Recovery) /\ WF_vars(Mixer)

(***************************************************************************)
(* SpecReader: one session whose download, in reads of any size, runs      *)
(* beside the Reads of the mixer and the Reset and Seek calls of the       *)
(* decoder; resource 4 is longer than the buffer.                          *)
(***************************************************************************)
SeekOffsets == {-17, -1, 0, 1, 17}
Whences == {SeekStart, SeekCurrent, SeekEnd, 3}

NextReader ==
  \/ \E u \in {1, 4} : PlayCall(u, FALSE)
  \/ StopCall("Stop")
  \/ StopLocked \/ PlaySteps
  \/ Downloader(TRUE)
  \/ Mixer
  \/ \E s \in Sess : BrReset(s)
  \/ \E s \in Sess, offset \in SeekOffsets, whence \in Whences : BrSeek(s, offset, whence)

SpecReader == Init /\ [][NextReader]_vars

(***************************************************************************)
(* SpecTracker: one session with the clock, the ticks of Update, Pause and *)
(* Resume, Stop and Close, and the mixer up to the end of the stream.      *)
(***************************************************************************)
NextTracker ==
  \/ PlayCall(1, FALSE)
  \/ \E op \in {"Stop", "Close"} : StopCall(op)
  \/ StopLocked \/ PlaySteps
  \/ PauseCall \/ PauseGate \/ ResumeCall \/ ResumeGate
  \/ Downloader(FALSE)
  \/ Mixer
  \/ \E s \in Sess : TickUpdate(s)
  \/ Tock

SpecTracker == Init /\ [][NextTracker]_vars

(***************************************************************************)
(* The clock over two sessions: Play, Pause, Resume, Stop and Play again,  *)
(* the second Play after the download of the first session has ended; the  *)
(* device pulls nothing.                                                   *)
(***************************************************************************)
NextRestart ==
  \/ PlayCall(1, DownloadsEnded)
  \/ StopCall("Stop")
  \/ StopLocked \/ PlaySteps
  \/ PauseCall \/ PauseGate \/ ResumeCall \/ ResumeGate
  \/ Downloader(FALSE)
  \/ (\E s \in Sess : TickUpdate(s))
  \/ Tock

SpecRestart == Init /\ [][NextRestart]_vars

(***************************************************************************)
(* The PositionTracker by itself: its methods called in any order, as a    *)
(* player would whose Seek reaches SetPosition.  uOp and uArg hold the     *)
(* last method called, Update apart, and its argument.                     *)
(***************************************************************************)
SeekPositions == {0, 1, 2}

PtFrame ==
  UNCHANGED <<playerVars, pipeVars, bufVars, position, delivered, dlVars, tickPc, panicked,
              restVars, volVars, initCalls, cbVars, uiVars, uPc, uRet, uPolls, now>>

PtCall(op, arg) == uOp' = op /\ uArg' = arg

TrStart == ptStart /\ PtCall("Start", 0) /\ PtFrame

TrStop == ptStop /\ PtCall("Stop", 0) /\ PtFrame

TrPause == ptPause /\ PtCall("Pause", 0) /\ PtFrame

TrResume == ptResume /\ PtCall("Resume", 0) /\ PtFrame

TrSetPosition(d) == ptSetPosition(d) /\ PtCall("SetPosition", d) /\ PtFrame

TrUpdate == ptUpdate /\ UNCHANGED <<uOp, uArg>> /\ PtFrame

NextPt ==
  \/ TrStart \/ TrStop \/ TrPause \/ TrResume
  \/ (\E d \in SeekPositions : TrSetPosition(d))
  \/ TrUpdate
  \/ Tock

SpecPt == Init /\ [][NextPt]_vars

(***************************************************************************)
(* SpecStream: one session whose download, in reads of any size and over a *)
(* network that may fail, runs beside the Reads of the mixer; the decoder  *)
(* neither resets nor seeks its source.                                    *)
(***************************************************************************)
NextStream ==
  \/ \E u \in {1, 3, 4} : PlayCall(u, FALSE)
  \/ StopCall("Stop")
  \/ StopLocked \/ PlaySteps
  \/ Downloader(TRUE)
  \/ Mixer

SpecStream == InitDl /\ [][NextStream]_vars

\* the same over a network that never fails
SpecStreamSteady == Init /\ [][NextStream]_vars

\* the goroutine in Read is scheduled again after each time.Sleep
SpecReaderLive == SpecReader /\ WF_vars(MixPoll)

(***************************************************************************)
(* The callbacks: with both callbacks set, every state change starts a     *)
(* goroutine that calls Stop(), as a listener may that tears the player    *)
(* down on a change of state.  The goroutine is a caller like any other:   *)
(* it holds no lock when it starts.                                        *)
(***************************************************************************)
\* the goroutine started by go p.onStateChange(..) or go p.onError(..) is scheduled
CbStart(v) ==
  /\ ~panicked /\ v \in cbPending /\ cbRunning = "none"
  /\ uPc = "idle"
  /\ cbPending' = cbPending \ {v}
  /\ cbRunning' = v
  /\ uOp' = "none" /\ uRet' = "none"
  /\ UNCHANGED <<uPc, uArg, uPolls, onStateChange, onError>>
  /\ UNCHANGED <<playerVars, pipeVars, bufVars, position, delivered, dlVars, ptVars, tickPc,
                 panicked, restVars, volVars, initCalls, uiVars>>

\* the callback calls p.Stop()
CbStopCall == cbRunning # "none" /\ uOp = "none" /\ StopCall("Stop")

\* Stop() has returned to the callback, which returns
CbReturn ==
  /\ ~panicked /\ cbRunning # "none" /\ uOp = "Stop" /\ uPc = "idle"
  /\ cbRunning' = "none"
  /\ UNCHANGED <<onStateChange, onError, cbPending>>
  /\ UNCHANGED <<playerVars, pipeVars, bufVars, position, delivered, dlVars, ptVars, tickPc,
                 userVars, panicked, restVars, volVars, initCalls, uiVars>>

Callbacks == (\E v \in {"playing", "stopped", "error"} : CbStart(v)) \/ CbStopCall \/ CbReturn

\* SetStateChangeCallback and SetErrorCallback were called before the first Play
InitCallback == InitPlayer /\ faults = MaxFaults /\ onStateChange = TRUE /\ onError = TRUE

NextCallback ==
  \/ (cbRunning = "none" /\ \E u \in {1, 3} : PlayCall(u, FALSE))
  \/ StopLocked
  \/ PlaySteps
  \/ Downloader(FALSE)
  \/ DownloaderGiveUp
  \/ Mixer
  \/ Callbacks

SpecCallback == InitCallback /\ [][NextCallback]_vars

(***************************************************************************)
(* The PlayerComponent of the terminal interface.  Update runs on one      *)
(* goroutine; a command runs on a goroutine of its own and its message is  *)
(* handled by Update.  One track is played, whose stream is URL 1; times   *)
(* are in ticks of the clock.                                              *)
(***************************************************************************)
expectedDuration == 4      \* the Duration of the track that is played
stopTolerance == 2         \* 2*time.Second

UiFrame ==
  UNCHANGED <<playerVars, pipeVars, bufVars, position, delivered, dlVars, ptVars, tickPc,
              panicked, restVars, volVars, initCalls, cbVars>>

\* the stop is near the end of the track, or the duration is unknown
NearEnd(pos) == pos >= currentTrack - stopTolerance \/ currentTrack = 0

\* a synchronisation that takes every stop of the player for the end of the track
SyncStateAnyStopCompletes(pos) ==
  /\ uiState' = CASE state = "playing" ->
                      IF uiState # "playing" /\ uiState # "loading" THEN "playing" ELSE uiState
                 [] state = "paused" -> IF uiState = "playing" THEN "paused" ELSE uiState
                 [] state = "stopped" ->
                      IF uiState = "playing" \/ uiState = "paused" THEN "completed" ELSE uiState
  /\ UNCHANGED <<prematureStopDetected, signalCount>>

\* syncStateWithAudioPlayer with p.position = pos; the premature stop is signalled on
\* the pipeline the player holds
SyncState(pos) ==
  CASE state = "playing" ->
         IF uiState # "playing" /\ uiState # "loading"
         THEN /\ uiState' = "playing"
              /\ prematureStopDetected' = FALSE
              /\ UNCHANGED signalCount
         ELSE UNCHANGED <<uiState, prematureStopDetected, signalCount>>
    [] state = "paused" ->
         /\ uiState' = IF uiState = "playing" THEN "paused" ELSE uiState
         /\ UNCHANGED <<prematureStopDetected, signalCount>>
    [] state = "stopped" ->
         IF uiState = "playing" \/ uiState = "paused"
         THEN IF currentTrack # NoTrack
              THEN IF NearEnd(pos)
                   THEN /\ uiState' = "completed"
                        /\ UNCHANGED <<prematureStopDetected, signalCount>>
                   ELSE /\ prematureStopDetected' = TRUE
                        /\ signalCount' = IF prematureStopDetected
                                          THEN signalCount
                                          ELSE [signalCount EXCEPT ![ctrl] = @ + 1]
                        /\ UNCHANGED uiState
              ELSE /\ uiState' = "idle"
                   /\ UNCHANGED <<prematureStopDetected, signalCount>>
         ELSE UNCHANGED <<uiState, prematureStopDetected, signalCount>>

\* Update(ProgressUpdateMsg{GetPosition(), GetDuration()}): the position, the
\* synchronisation, and the next timer
ProgressUpdate ==
  /\ RLockable
  /\ uiPosition' = lastPosition
  /\ SyncState(lastPosition)
  /\ uiTick' = TRUE

\* Update(PlayTrackMsg): handlePlayTrack, which starts extractStreamURL
UiPlayTrack ==
  /\ ~panicked /\ uiState = "idle" /\ uiCmd = "none"
  /\ uiState' = "loading"
  /\ prematureStopDetected' = FALSE
  /\ uiCmd' = "extract"
  /\ currentTrack' = expectedDuration
  /\ UNCHANGED <<uiPosition, savedPosition, uiTick, signalCount, userVars>>
  /\ UiFrame

\* Update(StreamInfoMsg) without an error: handleStreamInfo, which starts playStream
UiStreamInfo ==
  /\ ~panicked /\ uiCmd = "extract" /\ uPc = "idle"
  /\ uiState' = "playing"
  /\ uiCmd' = "play"
  /\ uOp' = "none" /\ uRet' = "none"
  /\ UNCHANGED <<currentTrack, prematureStopDetected, uiPosition, savedPosition, uiTick,
                 signalCount>>
  /\ UNCHANGED <<uPc, uArg, uPolls>>
  /\ UiFrame

\* the command of playStream, or of the restart after a premature stop, calls Play
UiPlay == (uiCmd = "play" \/ uiCmd = "restart") /\ uOp = "none" /\ PlayCall(1, TRUE)

\* the command of the restart calls Seek(savedPosition) after Play has succeeded
UiSeek ==
  /\ uiCmd = "restart" /\ uOp = "Play" /\ uPc = "idle" /\ uRet = "ok"
  /\ savedPosition > 0
  /\ Seek(savedPosition)

\* the command has made its last call
CmdReturned ==
  /\ uPc = "idle"
  /\ CASE uiCmd = "play" -> uOp = "Play"
       [] uiCmd = "restart" -> \/ uOp = "Play" /\ (uRet # "ok" \/ savedPosition = 0)
                               \/ uOp = "Seek"
       [] uiCmd = "pause" -> uOp = "Pause"
       [] uiCmd = "resume" -> uOp = "Resume"
       [] OTHER -> FALSE

\* the command returns an error (a failed Seek is only printed)
CmdFailed == uOp # "Seek" /\ uRet # "ok"

\* the message of a command is handled by Update: handleError, or the progress update;
\* playStream cancels the context it passed to Play as it returns (defer cancel())
UiCmdDone ==
  /\ ~panicked /\ CmdReturned
  /\ uiCmd' = "none"
  /\ IF CmdFailed
     THEN /\ uiState' = "error"
          /\ UNCHANGED <<prematureStopDetected, uiPosition, uiTick, signalCount>>
     ELSE ProgressUpdate
  /\ ctxDone' = IF uiCmd = "play" /\ nSess > 0
                THEN [ctxDone EXCEPT ![nSess] = TRUE]
                ELSE ctxDone
  /\ UNCHANGED <<currentTrack, savedPosition, userVars>>
  /\ UNCHANGED <<data, writePos, preloaded, completed, downloadDone>>
  /\ UNCHANGED <<playerVars, pipeVars, position, delivered, dlVars, ptVars, tickPc,
                 panicked, restVars, volVars, initCalls, cbVars>>

\* the timer of tickProgress fires: a progress update while the component is Playing
\* or Paused, else nothing, and no timer is armed again
UiTick ==
  /\ ~panicked /\ uiTick
  /\ IF uiState = "playing" \/ uiState = "paused"
     THEN ProgressUpdate
     ELSE /\ uiTick' = FALSE
          /\ UNCHANGED <<uiState, prematureStopDetected, uiPosition, signalCount>>
  /\ UNCHANGED <<currentTrack, savedPosition, uiCmd, userVars>>
  /\ UiFrame

\* Update(space): togglePlayPause, with no command in flight
UiSpace ==
  /\ ~panicked /\ uiCmd = "none" /\ uPc = "idle" /\ RLockable
  /\ CASE state = "playing" ->
            /\ uiCmd' = "pause"
            /\ UNCHANGED <<uiState, savedPosition>>
       [] state = "paused" ->
            /\ uiCmd' = "resume"
            /\ UNCHANGED <<uiState, savedPosition>>
       [] state = "stopped" ->
            /\ currentTrack # NoTrack /\ nSess < MaxSessions
            /\ uiState' = "loading"
            /\ IF NearEnd(uiPosition)
               THEN uiCmd' = "extract" /\ UNCHANGED savedPosition
               ELSE uiCmd' = "restart" /\ savedPosition' = uiPosition
  /\ uOp' = "none" /\ uRet' = "none"
  /\ UNCHANGED <<currentTrack, prematureStopDetected, uiPosition, uiTick, signalCount>>
  /\ UNCHANGED <<uPc, uArg, uPolls>>
  /\ UiFrame

UiCommands == UiPlay \/ UiSeek

\* the component after NewPlayerComponent and Init(), which arms the first timer
InitUi == InitPlayer /\ faults = 0 /\ NoCallbacks

\* The user presses space only after a stop, and the download of the stream ends
\* before the device pulls a sample and before a timer fires.
NextUi ==
  \/ UiPlayTrack \/ UiStreamInfo \/ (state = "stopped" /\ UiSpace)
  \/ UiCommands
  \/ UiCmdDone
  \/ PlaySteps \/ StopLocked
  \/ Downloader(FALSE)
  \/ /\ DownloadsEnded
     /\ \/ UiTick
        \/ Mixer
        \/ (\E s \in Sess : TickUpdate(s))
        \/ (now < MaxNow - 1 /\ Tock)

SpecUi == InitUi /\ [][NextUi]_vars

\* every command, message and timer is run in the end; the user need not press a key
SpecUiLive ==
  /\ SpecUi
  /\ WF_vars(UiStreamInfo) /\ WF_vars(UiCommands) /\ WF_vars(UiCmdDone)
  /\ WF_vars(PlaySteps \/ StopLocked) /\ WF_vars(Downloader(FALSE))
  /\ WF_vars(DownloadsEnded /\ UiTick) /\ WF_vars(DownloadsEnded /\ Mixer)

(***************************************************************************)
(* The properties                                                          *)
(***************************************************************************)
\* session s was set up and is no longer the player's: Stop, Close or a later Play
\* has run stopLocked on it and has returned
Retired(s) == attached[s] /\ ctrl # s /\ uPc = "idle"

\* C1: once Stop() or a superseding Play() has returned, the pause gate of the
\* stopped or superseded session's pipeline is engaged and stays engaged, so a
\* mixer pull of that pipeline never delivers a sample of the session.
C1_RetiredGateEngaged == \A s \in Sess : Retired(s) => paused[s]

\* C2: a Seek(d) that passed its checks on a loaded stream is never blocked on
\* the player's own mutex: where it waits for GetDuration() it can go on.
C2_SeekNotSelfBlocked ==
  uPc = "seekDuration" => ENABLED (\E pos \in SeekArgs : Seek(pos))

\* C3: a step of the downloader of session d changes no buffer but the one of
\* session d (bytes, write position, preloaded, completed, downloadDone), and
\* the request it has in flight is one for session d.
C3_OneWriterPerBuffer ==
  [][\A d \in Sess : dlPc'[d] # dlPc[d] =>
        /\ \A b \in Sess \ {d} :
              /\ data'[b] = data[b] /\ writePos'[b] = writePos[b]
              /\ preloaded'[b] = preloaded[b] /\ completed'[b] = completed[b]
              /\ downloadDone'[b] = downloadDone[b]
        /\ reqCtx'[d] \in {NoSess, d}]_vars

\* C4: the bytes a buffer stores at the offsets [0, writePos) are the first
\* writePos bytes of the resource its first byte came from, whatever attempts
\* failed and whether the server answered 200 or 206.
C4_StoredBytesArePrefix ==
  \A b \in Sess : \A i \in 1..writePos[b] : data[b][i] = Byte(data[b][1][1], i - 1)

\* C5: when the server answered 200 with a body of zero bytes and the downloader
\* has marked the buffer completed, Play's wait for the preload ends at its next
\* tick, and Play does not return the preload error unless its caller's context
\* is done.
C5_EmptyBodyEndsPreloadWait ==
  [][(uPc = "preload" /\ completed[buffer] /\ writePos[buffer] = 0) =>
        /\ ~(uPc' = "preload" /\ uPolls' = uPolls + 1)
        /\ ~(~ctxDone[buffer] /\ uRet' = "errPreload")]_vars

\* C6: after Pause() has returned success, a mixer pull of the player's pipeline
\* yields silence and leaves the reader where it is, until Resume; after Resume()
\* has returned success, a pull of the pipeline does not yield the gate's silence.
C6_GateFollowsPauseResume ==
  [][\A s \in Sess : (MixPull(s) /\ s = ctrl /\ uPc = "idle" /\ uRet = "ok") =>
        /\ (uOp = "Pause" /\ state = "paused") =>
              (out'[s] = "silence" /\ position'[s] = position[s])
        /\ (uOp = "Resume" /\ state = "playing") => out'[s] # "silence"]_vars

\* C7: a downloader whose session is cancelled sends no further request after
\* the wait before a retry, and never blocks on the send to downloadDone.
C7_CancelledDownloaderEnds ==
  [][\A d \in Sess :
        /\ (ctxDone[d] /\ dlPc[d] = "backoff") => dlPc'[d] \in {"backoff", "sendDone"}
        /\ dlPc'[d] # "blocked"]_vars

\* C8: a poll of BufferReader.Read that finds the session's buffer cancelled and
\* no unread data returns io.EOF.
C8_CancelledReadReturnsEOF ==
  [][(MixPoll /\ ctxDone[mixS] /\ writePos[mixS] = position[mixS]) =>
        mixPc' = "callback"]_vars

\* C9: whenever no transport operation is under way, at most one pipeline is in
\* the mixer, at most one downloadStream goroutine and at most one
\* trackPositionWithBuffer goroutine are running, and none of them belongs to a
\* session other than the player's current one.
C9_AtMostOneLiveSession ==
  uPc = "idle" =>
    /\ Cardinality({s \in Sess : attached[s]}) <= 1
    /\ Cardinality({s \in Sess : dlPc[s] \notin {"none", "exited"}}) <= 1
    /\ Cardinality({s \in Sess : tickPc[s] = "run"}) <= 1
    /\ \A s \in Sess : (attached[s] \/ tickPc[s] = "run") => ctrl = s

\* C10: a snapshot read called while Play waits for the preload is not kept
\* waiting by Play: it can take its lock and return.
C10_SnapshotNotBlockedByPreload ==
  (oPc = "rlock" /\ uPc = "preload") => ENABLED ObsReturn

\* C11: the holder of the speaker lock never waits for buffer data: no Read is
\* in its wait loop while the mixer holds the lock.
C11_NoWaitUnderDeviceLock == mixPc = "read" => spk = "free"

\* C12: in every state and for every session, 0 <= the reader's position <=
\* writePos <= bufferSize.
C12_PositionsOrdered ==
  \A s \in Sess : 0 <= position[s] /\ position[s] <= writePos[s] /\ writePos[s] <= bufferSize

\* the buffer is full to its capacity, the reader has read past the middle and
\* the download still delivers
C12_Witness ==
  \E s \in Sess : /\ writePos[s] = bufferSize /\ position[s] > preloadSize
                   /\ dlPc[s] = "write"

\* C13: the audio device is initialised at most once however often Play is
\* called: speaker.Init is called at most one time in the life of the player.
C13_DeviceInitAtMostOnce == initCalls <= 1

\* the second Play has gone through speakerInit.Do and built its pipeline
\* after the one call of speaker.Init that the first Play made
C13_Witness == initCalls = 1 /\ nSess = 2 /\ streamer = 2

\* C14: once the device initialisation has failed, a later Play fails at once,
\* before it starts a downloader or waits for the preload: no step of a player
\* whose initialisation failure is latched creates a session.
C14_LatchedFailureStartsNothing ==
  [][speakerInit = "err" => nSess' = nSess]_vars

\* C15: every terminal failure of a session is surfaced by the state and by
\* the error callback: when Play has returned a preload or device error, or
\* the retries are exhausted, the error is recorded for the callback and the
\* state is not plain Stopped.
C15_FailureSurfaced ==
  /\ (uPc = "idle" /\ uOp = "Play" /\ uRet \in {"errPreload", "errSpeaker"})
        => (lastError /\ state # "stopped")
  /\ lastError => state # "stopped"

\* Play gave session d up in waitForPreload: its buffer is cancelled and no
\* pipeline was built on it, while the device has not failed
FailedPreload(d) == ctxDone[d] /\ ~attached[d] /\ speakerInit # "err"

\* C16: after a Play that failed in the wait for the preload, the session's
\* cancellation is set and its downloader and connection are released: the
\* downloader of such a session holds no response of a request made on a live
\* context, and it does not stay blocked.
C16_FailedPreloadReleased ==
  \A d \in Sess : FailedPreload(d) =>
     /\ dlPc[d] \in {"body", "write"} => ctxDone[reqCtx[d]]
     /\ dlPc[d] # "blocked"

\* the downloadStream goroutine of session d has returned from its loop
DlReturned(d) == dlPc[d] \in {"sendDone", "exited", "blocked"}

C18_CancelledEndsSilently ==
  [][\A d \in Sess :
        (ctxDone[d] /\ dlPc[d] # "giveUp") => dlPc'[d] # "giveUp"]_vars

\* the player as stopLocked leaves it: no pipeline, no URL, the tracker
\* stopped, the buffer (if any) cancelled, the state Stopped
StoppedState ==
  /\ ctrl = NoSess /\ streamer = NoSess /\ streamURL = NoURL
  /\ state = "stopped" /\ startTime = 0
  /\ buffer # NoSess => ctxDone[buffer]

\* C19: Stop() is idempotent and Close() after Stop() is a no-op: the steps of
\* a Stop or Close on a player that is already stopped change nothing of the
\* player, its pipelines, buffers and tracker, and the call returns success.
C19_StopIdempotent ==
  [][((StopPause \/ StopRest) /\ uOp \in {"Stop", "Close"} /\ StoppedState) =>
        /\ UNCHANGED <<state, ctrl, streamer, buffer, streamURL, isRecovering,
                       lastError, speakerInit, nSess>>
        /\ UNCHANGED <<pipeVars, bufVars, position, delivered, ptVars, tickPc, volVars>>
        /\ uPc' = "idle" => uRet' = "ok"]_vars

\* Stop or Close is in stopLocked on a player whose session a stopLocked
\* before it has already taken down
C19_Witness ==
  /\ uPc = "stopRest" /\ uOp \in {"Stop", "Close"} /\ StoppedState
  /\ buffer # NoSess /\ attached[buffer]

\* the errors of the checks of the arguments and of the state: Play(""), Pause
\* when not playing, Resume when not paused, SetVolume outside [0, 1], Seek
\* of a negative position or without a stream
Rejections == {"errEmptyURL", "errState", "errVolume", "errNegative", "errNoStream"}

\* the call of a transport operation by the caller
OperationCall ==
  \/ PlayCall(NoURL, FALSE) \/ PauseCall \/ ResumeCall
  \/ \E pos \in SeekArgs : Seek(pos)
  \/ \E v \in VolumeArgs : SetVolumeCall(v)

\* C20: a rejected operation has no effect: the call that returns one of the
\* rejections leaves the state, the volume, the position and the whole of the
\* current session (pipeline, buffer, downloader, tracker) as they were.
C20_RejectedHasNoEffect ==
  [][(OperationCall /\ uRet' \in Rejections) =>
        /\ uPc' = "idle" /\ mu' = mu
        /\ UNCHANGED <<state, ctrl, streamer, buffer, streamURL, isRecovering,
                       lastError, speakerInit, nSess>>
        /\ UNCHANGED <<volVars, position, delivered, ptVars, pipeVars, bufVars, dlVars, tickPc>>]_vars

\* SetVolume has been rejected on a player that is playing, with samples
\* already read and a volume that is not the initial one
C20_Witness ==
  /\ uPc = "idle" /\ uOp = "SetVolume" /\ uRet = "errVolume"
  /\ state = "playing" /\ volume # FullVolume /\ position[ctrl] > 0

\* C21: every Read terminates: with unread data it returns n > 0 bytes; with
\* none and completed set it returns io.EOF; with none and not completed it
\* polls at most maxWait times, returns the data that arrives in the wait, and
\* io.EOF when none arrives.
C21_ReadTerminates ==
  /\ [](mixPc = "read" => rdPolls < maxWait)
  /\ [][\A s \in Sess : (MixPull(s) /\ ~paused[s]) =>
          IF writePos[s] > position[s]
          THEN position'[s] > position[s] /\ out'[s] = "audio" /\ mixPc' = "idle"
          ELSE mixPc' = IF completed[s] THEN "callback" ELSE "read"]_vars
  /\ [][MixPoll =>
          IF writePos[mixS] > position[mixS]
          THEN position'[mixS] > position[mixS] /\ out'[mixS] = "audio" /\ mixPc' = "idle"
          ELSE IF completed[mixS] \/ rdPolls = maxWait - 1
          THEN mixPc' = "callback"
          ELSE mixPc' = "read" /\ rdPolls' = rdPolls + 1]_vars
  /\ (mixPc = "read" ~> mixPc # "read")

\* the last poll of a Read found no data in a buffer that is not completed:
\* the Read has returned io.EOF
C21_Witness ==
  mixPc = "callback" /\ rdPolls = maxWait - 1 /\ ~completed[mixS] /\ ~ctxDone[mixS]

\* C22: under any interleaving of the downloader's writes and the Reads, the
\* bytes the successive Reads of a reader have returned are, in order, the
\* first bytes written to its buffer; no Read returns bytes from beyond the
\* write position, and bytes once written stay as they are.
C22_ReadsArePrefixOfWrites ==
  /\ [](\A s \in Sess :
          /\ Len(delivered[s]) = position[s]
          /\ position[s] <= writePos[s] /\ writePos[s] = Len(data[s])
          /\ \A i \in 1..position[s] : delivered[s][i] = data[s][i])
  /\ [][\A s \in Sess :
          /\ writePos'[s] >= writePos[s]
          /\ position'[s] <= writePos[s] \/ position'[s] = position[s]
          /\ \A i \in 1..writePos[s] : data'[s][i] = data[s][i]]_vars

\* Reads have returned bytes in more than one call while the downloader, after
\* a retry, is still writing
C22_Witness ==
  \E s \in Sess : /\ position[s] > MaxPull /\ position[s] < writePos[s]
                    /\ dlPc[s] = "write" /\ attempt[s] > 0

\* C27: whenever the player has a pipeline and no SetVolume is under way, the
\* pipeline's volume stage agrees with the stored volume: it is silent if and
\* only if the volume is 0 and has gain 0 (unity) if the volume is 1.0; the
\* stored volume lies in [0.0, 1.0].
C27_VolumeStageAgrees ==
  /\ volume \in 0..FullVolume
  /\ (ctrl # NoSess /\ uPc # "volGate") =>
        /\ volCtrl[ctrl][2] <=> (volume = 0)
        /\ volume = FullVolume => volCtrl[ctrl][1] = 0

\* SetVolume(0) has returned on a player whose pipeline is in the mixer
C27_Witness ==
  /\ ctrl # NoSess /\ attached[ctrl] /\ volume = 0
  /\ uPc = "idle" /\ uOp = "SetVolume" /\ uRet = "ok"

\* C29: the player cannot deadlock on its two locks: in no state does a
\* transport operation hold p.mu and wait for the speaker lock while the
\* mixer, holding the speaker lock in the end-of-stream callback, waits for p.mu.
C29_NoLockOrderDeadlock ==
  ~ /\ mu = "user"
    /\ uPc \in {"stopPause", "pauseGate", "resumeGate", "volGate", "attach"}
    /\ ctrl # NoSess
    /\ spk = "mixer" /\ mixPc = "callback"

\* C30: the download outlives the Play call: once Play has returned success,
\* the session's buffer is cancelled only inside a Stop, a Close or a later
\* Play; while no operation is under way nothing cancels it, the end of the
\* context that was passed to Play included.
C30_CallerContextDoesNotCancel ==
  [][\A s \in Sess :
        (uPc = "idle" /\ ctrl = s /\ attached[s] /\ ~ctxDone[s]) => ~ctxDone'[s]]_vars

\* the end-of-stream callback has run and neither Stop nor Play since
Ended == state = "stopped" /\ startTime = 0 /\ ctrl # NoSess

\* C24: the end-of-stream callback leaves the position as it was last
\* reported, and after it the position stays so: no tick, and no step at all
\* short of a Seek, changes what GetPosition returns.
C24_PositionKeptAfterEnd ==
  [][(MixCallback \/ Ended) => lastPosition' = lastPosition]_vars

\* the stream has ended at a position above 0, its tick goroutine has
\* returned and the clock has gone on
C24_Witness ==
  Ended /\ lastPosition > 0 /\ tickPc[ctrl] = "exited" /\ now > lastPosition + 1

\* C25: Stop resets the position: when Stop() or Close() has returned, the
\* state is Stopped and GetPosition() returns 0.
C25_StopResetsPosition ==
  (uPc = "idle" /\ uOp \in {"Stop", "Close"} /\ uRet = "ok") =>
     (state = "stopped" /\ lastPosition = 0)

CallbackStopStuck ==
  /\ cbRunning # "none" /\ uOp = "Stop" /\ uPc = "stopPause"
  /\ mu = "user" /\ ctrl # NoSess
  /\ spk = "mixer" /\ mixPc = "callback"

\* C28: a state-change or error callback is started only after the state (the last
\* error) has the value the callback receives, the goroutine it runs on holds neither
\* the state lock nor the device lock, and a callback that calls Stop() is never
\* left waiting for a lock that is not released.
C28_CallbackNeverDeadlocks ==
  /\ [][\A v \in cbPending' \ cbPending :
          IF v = "error" THEN lastError' ELSE state' = v]_vars
  /\ [][\A v \in {"playing", "stopped", "error"} :
          CbStart(v) => (mu # "user" /\ spk # "user")]_vars
  /\ []~CallbackStopStuck

\* the stream of pipeline s has ended more than the tolerance before the expected
\* duration, and the player still holds the pipeline
PrematureStop(s) ==
  Ended /\ ctrl = s /\ ~NearEnd(lastPosition)

\* C23: an end of stream more than 2 s before the expected duration of the track is
\* signalled as a premature stop once: no progress tick signals it a second time,
\* the component reports Completed only near the end of the track, the player starts
\* no session unless a command of the component calls Play, and every premature stop
\* is signalled in the end unless playback is started again first.
C23_PrematureStopSignalledOnce ==
  /\ [](\A s \in Sess : signalCount[s] <= 1)
  /\ [](uiState = "completed" => NearEnd(uiPosition))
  /\ [][nSess' # nSess => (uiCmd = "play" \/ uiCmd = "restart")]_vars
  /\ \A s \in Sess :
       (PrematureStop(s) /\ signalCount[s] = 0)
         ~> (signalCount[s] = 1 \/ ~PrematureStop(s))

\* C31: whenever the state is Paused the pause gate of the player's pipeline is
\* engaged; attemptBufferRecovery does not disengage the gate of a session the user
\* has paused.
C31_PausedGateEngaged ==
  (state = "paused" /\ ctrl # NoSess) => paused[ctrl]

\* C32: over Play, Pause, Resume, Stop and Play again the position the tracker
\* reports is never negative, and while the state is Playing with a pipeline attached
\* the position the next Update stores grows with the clock.
C32_PositionAdvances ==
  /\ [](lastPosition >= 0)
  /\ [][(Tock /\ state = "playing" /\ startTime # 0)
          => trackedPosition' = trackedPosition + 1]_vars

\* C33: after SetPosition(d), with no other call to the tracker since, every Update
\* stores d plus the time elapsed since the SetPosition, and the position the tracker
\* reports is never below d.
C33_SeekedPositionCountsOn ==
  /\ [][(uOp = "SetPosition" /\ TrUpdate)
          => lastPosition' = uArg + (now - startTime)]_vars
  /\ [](uOp = "SetPosition" => lastPosition >= uArg)

\* C34: while Play waits for the preload of a buffer whose download has completed
\* with some bytes, fewer than the preload size or not, the wait ends with success:
\* Play neither polls again nor fails with the preload timeout.
C34_CompletedEndsPreloadWait ==
  [][(uPc = "preload" /\ completed[buffer] /\ writePos[buffer] > 0 /\ ~ctxDone[buffer]) =>
        /\ ~(uPc' = "preload" /\ uPolls' = uPolls + 1)
        /\ uRet' # "errPreload"]_vars

\* C35: every write stores the whole chunk read from the response, and when the
\* downloader marks the buffer completed the write position is the length of the
\* resource the server delivered.
C35_NoByteDiscarded ==
  /\ [][\A d \in Sess :
          (dlPc[d] = "write" /\ dlPc'[d] = "body")
            => writePos'[buffer] = writePos[buffer] + Len(chunk[d])]_vars
  /\ [](\A d \in Sess :
          (dlPc[d] = "sendDone" /\ buffer # NoSess /\ completed[buffer] /\ reqURL[d] # NoURL)
            => writePos[buffer] = ResLen(reqURL[d]))

\* C36: when attemptBufferRecovery has engaged the pause gate of a playing session
\* and sleeps, and the user starts no operation, the gate of the player's pipeline is
\* disengaged in the end.
C36_RecoveryPauseIsTemporary ==
  \A r \in 1..MaxRecov :
    (recPc[r] = "sleep" /\ wasPlaying[r] /\ state = "playing" /\ uPc = "idle")
      ~> (ctrl # NoSess /\ ~paused[ctrl])

\* a recovery that found the session playing has taken the gate off again
C36_Witness ==
  \E r \in 1..MaxRecov :
    /\ recPc[r] = "unflag" /\ wasPlaying[r]
    /\ state = "playing" /\ ctrl # NoSess /\ ~paused[ctrl] /\ uPc = "idle"

\* C37: attemptBufferRecovery never dereferences a p.ctrl that stopLocked has set to
\* nil, and the trackPositionWithBuffer goroutine of a session starts a recovery only
\* for the buffer of its own session.
C37_RecoveryKeepsToItsSession ==
  /\ []~panicked
  /\ [][\A s \in Sess : TickHealth(s) => buffer = s]_vars

\* C38: while the component is Playing or Paused with no command in flight a
\* progress timer is armed, and a component that is Loading with no command in
\* flight while the player reports Playing leaves Loading in the end.
C38_LoadingBecomesPlaying ==
  /\ []((uiState \in {"playing", "paused"} /\ uiCmd = "none") => uiTick)
  /\ (uiState = "loading" /\ uiCmd = "none" /\ state = "playing") ~> (uiState # "loading")

(***************************************************************************)
(* syncStateWithAudioPlayer on its own: the component in any state, with   *)
(* or without a track, beside a player in any state at any position, and   *)
(* one progress update handed to Update.                                   *)
(***************************************************************************)
UiStates == {"idle", "loading", "playing", "paused", "completed", "error"}
TrackInputs == {NoTrack, 0, expectedDuration}
PositionInputs == 0..(expectedDuration - 1)

InitSync ==
  /\ InitRest /\ faults = 0 /\ NoCallbacks
  /\ state \in {"stopped", "playing", "paused"}
  /\ lastPosition \in PositionInputs
  /\ uiState \in UiStates
  /\ currentTrack \in TrackInputs
  /\ prematureStopDetected \in BOOLEAN

\* Update(ProgressUpdateMsg), whatever the state of the component
UpdateProgress ==
  /\ ~panicked
  /\ ProgressUpdate
  /\ UNCHANGED <<currentTrack, savedPosition, uiCmd, userVars>>
  /\ UiFrame

SpecSync == InitSync /\ [][UpdateProgress]_vars

\* C39: on a progress update the component follows the audio player: Playing moves
\* every state of the component but Playing and Loading to Playing; Paused moves
\* Playing to Paused; Stopped moves a Playing or Paused component to Completed when a
\* track is set and the position is within 2 s of its duration or the duration is
\* unknown, to Idle when no track is set, and else leaves it; Stopped never changes
\* Idle, Loading, Completed or Error; the track is kept
C39_SyncFollowsAudioState ==
  [][UpdateProgress =>
       /\ state = "playing" =>
            uiState' = IF uiState \in {"playing", "loading"} THEN uiState ELSE "playing"
       /\ state = "paused" =>
            uiState' = IF uiState = "playing" THEN "paused" ELSE uiState
       /\ (state = "stopped" /\ uiState \in {"playing", "paused"}) =>
            uiState' = IF currentTrack = NoTrack THEN "idle"
                       ELSE IF \/ currentTrack = 0
                               \/ uiPosition' >= currentTrack - stopTolerance
                            THEN "completed"
                            ELSE uiState
       /\ (state = "stopped" /\ uiState \in {"idle", "loading", "completed", "error"}) =>
            uiState' = uiState
       /\ currentTrack' = currentTrack]_vars

\* a stop near the end of the track was synchronised
C39_Witness ==
  /\ state = "stopped" /\ uiState = "completed"
  /\ currentTrack = expectedDuration
  /\ uiPosition >= expectedDuration - stopTolerance /\ uiPosition = lastPosition

\* the bytes of buffer b its reader has not consumed
unread(b) == writePos[b] - position[b]

\* C40: isHealthy tells the unread data: it is true exactly when the download is
\* completed and bytes are unread, or the download is not completed and more than a
\* quarter of the preload size is unread, the read offset being the one the reader
\* has consumed up to; so it is false once the reader has drained a stalled buffer
C40_HealthReflectsUnread ==
  \A b \in Sess :
    isHealthy(b) <=> IF completed[b] THEN unread(b) > 0
                     ELSE unread(b) > preloadSize \div 4

====
